---- MODULE Spec2Model ----
(***************************************************************************)
(* Model of the mcpx client engine (src/src/client): the session state     *)
(* machine, the correlation table of pending requests, the request API,    *)
(* the handshake and the receive loop, over the abstract Transport of      *)
(* src/src/transport/mod.rs.                                               *)
(***************************************************************************)
EXTENDS Integers, Sequences, FiniteSets, TLC

\* ------------------------------------------------------------------ bounds
MaxNotifications == 2  \* frames the peer sends in a run that follows the events
MaxUpdates == 102      \* notifications the peer sends to a stalled consumer
MaxSteps == 4          \* server operations started in one run
MaxCalls == 2          \* API calls started in one run
MaxServerMsgs == 1     \* frames the peer sends in one run
MaxInbox == 1          \* frames queued in the transport, not yet received
MaxLoops == 1          \* receive loops alive at the same time
\* Events the application takes from the receiver in a run
MaxConsumed == 3
\* Events of the server after which no further request is started
MaxServerEvents == 1

\* ------------------------------------------------------- program constants
EventChannelCapacity == 100   \* mpsc::channel(100) of Client::new
InitId == 0                   \* the request id "init" of Client::initialize
NoOwner == 0                  \* a slot whose oneshot receiver was dropped
DefaultTimeoutMs == 30000     \* ClientOptions::default

\* The two application tasks that share the client
Callers == {1, 2}

\* Request ids: InitId, and one fresh id (a UUID) for every call
Ids == 0..MaxCalls

\* ClientState.connection_state
ConnectionState == {"Disconnected", "Connecting", "Initializing", "Initialized"}

\* ServerCapabilities, as the set of its flags that are true
CapFlags == {"logging", "completions", "prompts", "prompts_list_changed",
             "resources", "resources_list_changed", "resources_subscribe",
             "tools", "tools_list_changed"}

\* Option<ServerCapabilities>: None, and Some(capabilities)
NoCaps == [present |-> FALSE, flags |-> {}]
SomeCaps(flags) == [present |-> TRUE, flags |-> flags]

\* The "capabilities" object of an initialize result, as the set of its
\* paths (a feature key that is present, a nested flag that is true): the
\* objects the peer answers initialize with.
ServerJsonChoices ==
    { {},
      {"resources", "tools"},
      {"resources", "resources.subscribe", "prompts", "logging"},
      {"resources", "resources.listChanged", "resources.subscribe", "prompts",
       "prompts.listChanged", "tools", "tools.listChanged", "logging",
       "completions"} }

\* Client::parse_server_capabilities
parse_server_capabilities(json) ==
    {f \in {"logging", "completions", "prompts", "resources", "tools"} : f \in json}
    \cup (IF "prompts" \in json /\ "prompts.listChanged" \in json
          THEN {"prompts_list_changed"} ELSE {})
    \cup (IF "resources" \in json /\ "resources.listChanged" \in json
          THEN {"resources_list_changed"} ELSE {})
    \cup (IF "resources" \in json /\ "resources.subscribe" \in json
          THEN {"resources_subscribe"} ELSE {})
    \cup (IF "tools" \in json /\ "tools.listChanged" \in json
          THEN {"tools_list_changed"} ELSE {})

\* The capability-gated request operations of Client
GatedOps == {"list_resources", "list_resource_templates", "read_resource",
             "subscribe_resource", "unsubscribe_resource", "list_prompts",
             "get_prompt", "list_tools", "call_tool", "set_logging_level",
             "get_completions"}

\* The request operations of Client that check nothing before sending
UngatedOps == {"list_roots", "ping"}

\* Gate with the check of resources_subscribe left out of the two
\* subscription operations
Gate_SubscribeNeedsOnlyResources(o) ==
    CASE o \in {"list_resources", "list_resource_templates", "read_resource",
                "subscribe_resource", "unsubscribe_resource"}
            -> {"resources"}
      [] o \in {"list_prompts", "get_prompt"} -> {"prompts"}
      [] o \in {"list_tools", "call_tool"} -> {"tools"}
      [] o = "set_logging_level" -> {"logging"}
      [] o = "get_completions" -> {"completions"}

\* The flags each gated operation requires of the cached capabilities
Gate(o) ==
    CASE o \in {"list_resources", "list_resource_templates", "read_resource"}
            -> {"resources"}
      [] o \in {"subscribe_resource", "unsubscribe_resource"}
            -> {"resources", "resources_subscribe"}
      [] o \in {"list_prompts", "get_prompt"} -> {"prompts"}
      [] o \in {"list_tools", "call_tool"} -> {"tools"}
      [] o = "set_logging_level" -> {"logging"}
      [] o = "get_completions" -> {"completions"}

\* What a call in progress keeps of its operation: whether it holds the
\* read guard on server_capabilities, and whether it is the handshake.
OpKind(o) ==
    IF o \in GatedOps THEN "gated"
    ELSE IF o \in UngatedOps THEN "ungated"
    ELSE o

\* The wire method of a request, as far as the client tells requests apart
Method(k) == IF k = "connect" THEN "initialize" ELSE "request"

VARIABLES
    connection_state,     \* ClientState.connection_state
    server_capabilities,  \* Client.server_capabilities: NoCaps or SomeCaps(flags)
    pending_requests,     \* Client.pending_requests: request id -> owner of the slot
    connected,            \* the transport's connected flag
    inbox,                \* frames the transport has queued for receive()
    sent,                 \* number of frames handed to transport.send
    last_sent,            \* the last frame handed to transport.send
    events,               \* the client's event channel
    loops,                \* receive loops alive (spawned by connect, not exited)
    pc,                   \* position of each caller in its API call
    op,                   \* the kind of operation each caller is in
    rid,                  \* the request id of that operation
    result,               \* what the last API call of each caller returned
    chan,                 \* the oneshot channel of each caller's request
    hs,                   \* the handshake steps each caller's connect has done
    next_id,              \* ids issued so far (fresh ids stand for UUIDs)
    calls,                \* API calls started
    srv_msgs,             \* frames the peer has sent
    default_timeout_ms,   \* ClientOptions.default_timeout_ms
    client_options,       \* ClientOptions: capabilities and auto-acknowledge
    consumed,             \* events the application has taken from the receiver
    cause,                \* arrival number of the frame that answered each caller
    \* ---- the server engine (src/server)
    operational_state,    \* ServerState.operational_state
    options,              \* ServerOptions.capabilities: the flags that are true
    connections,          \* Server.connections: client id -> Connection
    reply,                \* what the last Server::handle_message returned
    outcome,              \* what the last outbound server operation returned
    emitted,              \* frames the server has handed to a transport
    service_calls,        \* invocations of ServerService::handle_request
    server_events,        \* the server's event channel
    event_receiver,       \* the application holds the receiver of that channel
    handling,             \* the request that has passed the check of handle_request
    steps,                \* server operations started
    \* ---- the library functions and the transports, called on their own
    arg,                  \* the input of the call under study
    ret,                  \* what the calls on that input returned, in order
    transport             \* the fields of the transport under study

server_vars == <<operational_state, options, connections, reply, outcome,
                 emitted, service_calls, server_events, event_receiver,
                 handling, steps>>

client_vars == <<connection_state, server_capabilities, pending_requests,
                 connected, inbox, sent, last_sent, events, loops, pc, op, rid,
                 result, chan, hs, next_id, calls, srv_msgs,
                 default_timeout_ms, client_options, consumed, cause>>

lib_vars == <<arg, ret, transport>>

vars == <<client_vars, server_vars, lib_vars>>

\* A frame on the wire or in the inbox; Malformed is what the incoming task
\* of the transport queues for a text frame serde_json cannot parse
Request(m, i) == [kind |-> "Request", method |-> m, id |-> i]
Notification(m, i) == [kind |-> "Notification", method |-> m, id |-> i]
Response(i) == [kind |-> "Response", method |-> "", id |-> i]
ErrorMsg(i) == [kind |-> "Error", method |-> "", id |-> i]
Malformed == [kind |-> "ParseError", method |-> "", id |-> 0]
NoFrame == [kind |-> "None", method |-> "", id |-> 0]

\* DashMap::insert and DashMap::remove on the correlation table
Insert(p, i, c) == [j \in DOMAIN p \cup {i} |-> IF j = i THEN c ELSE p[j]]
Remove(p, i) == [j \in DOMAIN p \ {i} |-> p[j]]
EmptyTable == [j \in {} |-> NoOwner]

\* The caller whose live oneshot receiver belongs to slot i, or NoOwner
OwnerOf(p, i) == IF i \in DOMAIN p THEN p[i] ELSE NoOwner

\* ClientOptions::default, and what ClientBuilder can make of it
DefaultClientOptions ==
    [roots |-> FALSE, roots_list_changed |-> FALSE, sampling |-> FALSE,
     auto_acknowledge_roots_changed |-> TRUE]
ClientOptionChoices ==
    [roots : BOOLEAN, roots_list_changed : BOOLEAN, sampling : BOOLEAN,
     auto_acknowledge_roots_changed : BOOLEAN]

\* Client::new, and the options the builder was given
ClientNew ==
    /\ connection_state = "Disconnected"
    /\ server_capabilities = NoCaps
    /\ pending_requests = EmptyTable
    /\ connected = FALSE
    /\ inbox = <<>>
    /\ sent = 0
    /\ last_sent = NoFrame
    /\ events = <<>>
    /\ loops = 0
    /\ pc = [c \in Callers |-> "idle"]
    /\ op = [c \in Callers |-> "none"]
    /\ rid = [c \in Callers |-> InitId]
    /\ result = [c \in Callers |-> "none"]
    /\ chan = [c \in Callers |-> "none"]
    /\ hs = [c \in Callers |-> <<>>]
    /\ next_id = 1
    /\ calls = 0
    /\ srv_msgs = 0
    /\ default_timeout_ms \in {0, DefaultTimeoutMs}
    /\ consumed = <<>>
    /\ cause = [c \in Callers |-> 0]


\* ------------------------------------------------------- server engine
ClientIds == {"c1", "c2"}
RequestIds == {1, 2}
OperationalState == {"Stopped", "Starting", "Running", "Stopping"}

\* JSON-RPC error codes the server handler answers with
MethodNotFound == -32601
InternalErrorCode == -32603
ServerEventCapacity == 100    \* mpsc::channel(100) of Server::new

\* ServerOptions.capabilities, as the set of the flags that are true: the
\* default, and what a builder may configure.
ServerOptionChoices ==
    { {"logging"},
      {"logging", "resources", "tools"},
      {"resources", "resources_subscribe", "resources_list_changed",
       "prompts", "completions"},
      CapFlags }

\* CapabilityState, as the set of the flags that are true
CapabilityFlags == {"logging", "sampling", "roots", "roots_list_changed",
                    "prompts_list_changed", "resources_list_changed",
                    "resources_subscribe", "tools_list_changed"}

\* Connection::new
NewConnection ==
    [initialized |-> FALSE, client_info |-> "None", protocol_version |-> "None",
     capabilities |-> {}, subscribed_resources |-> <<>>]

\* Connection::set_initialized
set_initialized(conn, client_info, protocol_version, capabilities) ==
    [conn EXCEPT !.initialized = TRUE,
                 !.client_info = client_info,
                 !.protocol_version = protocol_version,
                 !.capabilities = capabilities]

\* subscribe_resource without the look for the URI in the list
subscribe_resource_Pushes(conn, uri) ==
    [conn EXCEPT !.subscribed_resources = Append(@, uri)]

\* Connection::subscribe_resource and Connection::unsubscribe_resource
subscribe_resource(conn, uri) ==
    IF \E k \in 1..Len(conn.subscribed_resources) : conn.subscribed_resources[k] = uri
    THEN conn
    ELSE [conn EXCEPT !.subscribed_resources = Append(@, uri)]

unsubscribe_resource(conn, uri) ==
    [conn EXCEPT !.subscribed_resources = SelectSeq(@, LAMBDA r : r # uri)]

\* The params of a message: absent, an object without the fields the
\* method reads, or an object with them (for initialize: clientInfo,
\* protocolVersion and the paths of "capabilities").
Params(shape, info, version, caps, uri) ==
    [shape |-> shape, clientInfo |-> info, protocolVersion |-> version,
     capabilities |-> caps, uri |-> uri]

ParamChoices ==
    { Params("missing", "", "", {}, ""),
      Params("malformed", "", "", {}, ""),
      Params("valid", "clientA", "2024-11-05", {"roots"}, "u1"),
      Params("valid", "clientB", "2025-03-26",
             {"sampling", "roots", "roots.listChanged"}, "u2") }

\* handle_initialize, lines 154-179: the client capabilities the server
\* records from the "capabilities" object of initialize
parse_client_capabilities(json) ==
    {f \in CapabilityFlags :
        \/ f = "sampling" /\ "sampling" \in json
        \/ f = "roots" /\ "roots" \in json
        \/ f = "roots_list_changed" /\ {"roots", "roots.listChanged"} \subseteq json}

RequestMethods ==
    {"initialize", "ping", "resources/list", "resources/templates/list",
     "resources/read", "resources/subscribe", "resources/unsubscribe",
     "prompts/list", "prompts/get", "tools/list", "tools/call",
     "logging/setLevel", "completion/complete"}

NotificationMethods ==
    {"notifications/initialized", "notifications/cancelled",
     "notifications/progress", "notifications/roots/list_changed"}

\* The methods whose handler reads a field of params, and the one that only
\* wants params to be there
ReadsParams(method) ==
    method \in {"resources/read", "resources/subscribe",
                "resources/unsubscribe", "prompts/get", "tools/call",
                "logging/setLevel"}
WantsParams(method) == ReadsParams(method) \/ method = "completion/complete"

\* The messages a client sends to the server; params vary for the methods
\* that look at them.
ClientMessages ==
    {m \in [kind : {"Request"}, method : RequestMethods \cup {"unknown/method"},
            id : RequestIds, params : ParamChoices] :
        \/ m.method = "initialize"
        \/ WantsParams(m.method)
        \/ m.params.shape = "missing"}
    \cup
    {m \in [kind : {"Notification"},
            method : NotificationMethods \cup {"notifications/unknown"},
            id : {0}, params : ParamChoices] :
        \/ m.method \in {"notifications/cancelled", "notifications/progress"}
        \/ m.params.shape = "missing"}
    \cup [kind : {"Response"}, method : {""}, id : RequestIds,
          params : {Params("missing", "", "", {}, "")}]

\* What Server::handle_message returns: Ok(Some(Response)), Ok(Some(Error)),
\* Ok(None) or Err(error)
RpcResponse(id, res) == [kind |-> "Response", id |-> id, code |-> 0, result |-> res]
RpcError(id, code) == [kind |-> "Error", id |-> id, code |-> code, result |-> ""]
NoReply == [kind |-> "None", id |-> 0, code |-> 0, result |-> ""]
Failed(error) == [kind |-> "Err", id |-> 0, code |-> 0, result |-> error]

\* No request is between the check of handle_request and its handler; a
\* request that is
NoHandling ==
    [busy |-> FALSE, cid |-> "",
     msg |-> [kind |-> "None", method |-> "", id |-> 0,
              params |-> Params("missing", "", "", {}, "")]]
Handling(cid, m) == [busy |-> TRUE, cid |-> cid, msg |-> m]

\* Server::new; the options are the builder's
ServerNew ==
    /\ operational_state = "Stopped"
    /\ options \in ServerOptionChoices
    /\ connections = [c \in {} |-> NewConnection]
    /\ reply = NoReply
    /\ outcome = "none"
    /\ emitted = 0
    /\ service_calls = 0
    /\ server_events = <<>>
    /\ event_receiver = TRUE
    /\ handling = NoHandling
    /\ steps = 0

\* No library call under study and no transport of its own
NoArg == [type |-> "none"]
NoTransport == [kind |-> "none"]
LibraryIdle ==
    /\ arg = NoArg
    /\ ret = <<>>
    /\ transport = NoTransport

\* A client next to a server, both with the default options (the timeout
\* is the builder's)
Init ==
    /\ ClientNew
    /\ ServerNew
    /\ LibraryIdle
    /\ options = {"logging"}
    /\ client_options = DefaultClientOptions

\* A server with the options of its builder, next to a client at rest
ServerInit ==
    /\ ClientNew
    /\ ServerNew
    /\ LibraryIdle
    /\ default_timeout_ms = DefaultTimeoutMs
    /\ client_options = DefaultClientOptions

\* ------------------------------------------------------------- helpers
\* Dropping a oneshot sender without sending closes the owner's channel.
DropSender(ch, owner) ==
    IF owner \in Callers THEN [ch EXCEPT ![owner] = "closed"] ELSE ch

\* A caller that returns drops its oneshot receiver: a slot it still owns
\* stays in the table with a sender nobody listens to.
Release(p, c) == [j \in DOMAIN p |-> IF p[j] = c THEN NoOwner ELSE p[j]]

\* The guard `caps` of a gated operation lives until the operation returns.
HoldsRead(c) == op[c] = "gated"

\* Client::initialize is queued for server_capabilities.write()
WriterWaiting == \E c \in Callers : pc[c] = "store_caps"

\* A receive loop that is between pending_requests.remove and sender.send
Delivering(c) == chan[c] \in {"sending_Response", "sending_Error"}
BusyLoops == Cardinality({c \in Callers : Delivering(c)})

\* The notifications ClientMessageHandler::handle_notification turns into
\* an event: the list-changed ones after a look at the cached
\* capabilities, the others after the parse of their params.
ListChangedMethods == {"notifications/resources/list_changed",
                       "notifications/prompts/list_changed",
                       "notifications/tools/list_changed"}
UngatedEventMethods == {"notifications/resources/updated",
                        "notifications/progress", "notifications/message"}

\* The ClientEvent of a notification or request
EventOf(method) ==
    CASE method = "notifications/resources/list_changed" -> "ResourcesChanged"
      [] method = "notifications/prompts/list_changed" -> "PromptsChanged"
      [] method = "notifications/tools/list_changed" -> "ToolsChanged"
      [] method = "notifications/resources/updated" -> "ResourceUpdated"
      [] method = "notifications/progress" -> "Progress"
      [] method = "notifications/message" -> "LogMessage"
      [] method = "roots/list" -> "RootsChanged"
      [] OTHER -> "None"

\* The flags handle_*_changed_notification wants in the cached capabilities
ListChangedGate(method) ==
    CASE method = "notifications/resources/list_changed"
            -> {"resources", "resources_list_changed"}
      [] method = "notifications/prompts/list_changed"
            -> {"prompts", "prompts_list_changed"}
      [] method = "notifications/tools/list_changed"
            -> {"tools", "tools_list_changed"}
      [] OTHER -> {}

\* An event in the channel, with the arrival number of the frame that
\* caused it (for Connected, the response to initialize)
Event(kind, arrival) == [kind |-> kind, seq |-> arrival]

\* The arrival number of the frame at the head of the inbox
ArrivalIndex == srv_msgs - Len(inbox) + 1

\* The handler of notification m sends an event
Accepts(m) ==
    /\ m.kind = "Notification"
    /\ \/ m.method \in UngatedEventMethods
       \/ /\ m.method \in ListChangedMethods
          /\ server_capabilities.present
          /\ ListChangedGate(m.method) \subseteq server_capabilities.flags

\* handle_request sends an event for roots/list when the client offers
\* roots; the handler of frame m sends an event
EmitsEvent(m) ==
    \/ Accepts(m)
    \/ m.kind = "Request" /\ m.method = "roots/list" /\ client_options.roots

\* The frames whose handler removes a slot of the correlation table
NamesSlot(m) ==
    m.kind \in {"Response", "Error"} \/ m.method = "notifications/cancelled"

\* transport.send(message) on a connected transport
Transmit(m) ==
    /\ sent' = sent + 1
    /\ last_sent' = m

\* Client::send_request, lines 419-429: create the oneshot channel and
\* insert the slot; DashMap::insert replaces a slot with the same id.
Register(c, o, i) ==
    /\ pending_requests' = Insert(pending_requests, i, c)
    /\ chan' = [DropSender(chan, OwnerOf(pending_requests, i)) EXCEPT ![c] = "empty"]
    /\ op' = [op EXCEPT ![c] = OpKind(o)]
    /\ rid' = [rid EXCEPT ![c] = i]
    /\ pc' = [pc EXCEPT ![c] = "sending"]
    /\ result' = [result EXCEPT ![c] = "none"]

\* An API call returns r to its caller.
Return(c, r) ==
    /\ result' = [result EXCEPT ![c] = r]
    /\ pc' = [pc EXCEPT ![c] = "idle"]
    /\ op' = [op EXCEPT ![c] = "none"]
    /\ rid' = [rid EXCEPT ![c] = InitId]

\* ------------------------------------------------------- request API
\* The eleven capability-gated operations, up to the call of send_request.
CallGated(c, o) ==
    /\ pc[c] = "idle" /\ calls < MaxCalls
    /\ ~WriterWaiting
    /\ calls' = calls + 1
    /\ IF ~server_capabilities.present
       THEN /\ Return(c, "NotInitialized")
            /\ UNCHANGED <<pending_requests, chan, next_id>>
       ELSE IF ~(Gate(o) \subseteq server_capabilities.flags)
       THEN /\ Return(c, "UnsupportedFeature")
            /\ UNCHANGED <<pending_requests, chan, next_id>>
       ELSE /\ Register(c, o, next_id)
            /\ next_id' = next_id + 1
    /\ UNCHANGED <<connection_state, server_capabilities, connected, inbox,
                   sent, last_sent, events, loops, hs, srv_msgs,
                   default_timeout_ms, client_options, consumed, cause, server_vars, lib_vars>>

\* Client::list_roots and Client::ping, up to the call of send_request.
CallUngated(c, o) ==
    /\ pc[c] = "idle" /\ calls < MaxCalls
    /\ calls' = calls + 1
    /\ Register(c, o, next_id)
    /\ next_id' = next_id + 1
    /\ UNCHANGED <<connection_state, server_capabilities, connected, inbox,
                   sent, last_sent, events, loops, hs, srv_msgs,
                   default_timeout_ms, client_options, consumed, cause, server_vars, lib_vars>>

\* Client::send_request called by the application with an id of its choice:
\* one already issued on this session, or a new one.
CallSendRequest(c, i) ==
    /\ pc[c] = "idle" /\ calls < MaxCalls
    /\ i \in 0..next_id
    /\ calls' = calls + 1
    /\ Register(c, "send_request", i)
    /\ next_id' = IF i = next_id THEN next_id + 1 ELSE next_id
    /\ UNCHANGED <<connection_state, server_capabilities, connected, inbox,
                   sent, last_sent, events, loops, hs, srv_msgs,
                   default_timeout_ms, client_options, consumed, cause, server_vars, lib_vars>>

\* Client::send_request, line 433: transport.send(message).await?
\* A transport that is not connected fails with ConnectionClosed; the `?`
\* returns with the slot still in the table.
SendRequest(c) ==
    /\ pc[c] = "sending"
    /\ IF connected
       THEN /\ Transmit(Request(Method(op[c]), rid[c]))
            /\ pc' = [pc EXCEPT ![c] = "waiting"]
            /\ hs' = [hs EXCEPT ![c] = IF op[c] = "connect"
                                        THEN Append(@, "request_sent") ELSE @]
            /\ UNCHANGED <<result, chan, pending_requests, op, rid>>
       ELSE /\ Return(c, "ConnectionClosed")
            /\ chan' = [chan EXCEPT ![c] = "none"]
            /\ pending_requests' = Release(pending_requests, c)
            /\ UNCHANGED <<sent, last_sent, hs>>
    /\ UNCHANGED <<connection_state, server_capabilities, connected, inbox,
                   events, loops, next_id, calls, srv_msgs,
                   default_timeout_ms, client_options, consumed, cause, server_vars, lib_vars>>

\* AwaitResponse with initialize going on after an Error as after a
\* Response
AwaitResponse_ErrorProceeds(c) ==
    /\ pc[c] = "waiting"
    /\ chan[c] \in {"Response", "Error", "closed"}
    /\ chan' = [chan EXCEPT ![c] = "none"]
    /\ IF op[c] = "connect" /\ chan[c] \in {"Response", "Error"}
       THEN /\ pc' = [pc EXCEPT ![c] = "store_caps"]
            /\ UNCHANGED <<result, op, rid>>
       ELSE Return(c, IF chan[c] = "closed" THEN "InternalError" ELSE chan[c])
    /\ hs' = [hs EXCEPT ![c] = IF op[c] = "connect" /\ chan[c] = "Response"
                                THEN Append(@, "response_received") ELSE @]
    /\ UNCHANGED <<connection_state, server_capabilities, pending_requests,
                   connected, inbox, sent, last_sent, events, loops, next_id,
                   calls, srv_msgs, default_timeout_ms, client_options, consumed, cause, server_vars, lib_vars>>

\* Client::send_request, lines 437-457: the receiver resolves. A value is
\* returned as the response; a dropped sender is InternalError. The
\* initialize call goes on with a Response, every other call returns.
AwaitResponse(c) ==
    /\ pc[c] = "waiting"
    /\ chan[c] \in {"Response", "Error", "closed"}
    /\ chan' = [chan EXCEPT ![c] = "none"]
    /\ IF op[c] = "connect" /\ chan[c] = "Response"
       THEN /\ pc' = [pc EXCEPT ![c] = "store_caps"]
            /\ UNCHANGED <<result, op, rid>>
       ELSE Return(c, IF chan[c] = "closed" THEN "InternalError" ELSE chan[c])
    /\ hs' = [hs EXCEPT ![c] = IF op[c] = "connect" /\ chan[c] = "Response"
                                THEN Append(@, "response_received") ELSE @]
    /\ UNCHANGED <<connection_state, server_capabilities, pending_requests,
                   connected, inbox, sent, last_sent, events, loops, next_id,
                   calls, srv_msgs, default_timeout_ms, client_options, consumed, cause, server_vars, lib_vars>>

\* Timeout that also tells the peer, with notifications/cancelled
Timeout_SendsCancelled(c) ==
    /\ pc[c] = "waiting"
    /\ default_timeout_ms > 0
    /\ chan[c] \in {"empty", "sending_Response", "sending_Error"}
    /\ pending_requests' = Remove(pending_requests, rid[c])
    /\ chan' = [DropSender(chan, OwnerOf(pending_requests, rid[c])) EXCEPT ![c] = "none"]
    /\ Return(c, "Timeout")
    /\ IF connected
       THEN Transmit(Notification("notifications/cancelled", rid[c]))
       ELSE UNCHANGED <<sent, last_sent>>
    /\ UNCHANGED <<connection_state, server_capabilities, connected, inbox,
                   events, loops, hs, next_id, calls, srv_msgs,
                   default_timeout_ms, client_options, consumed, cause, server_vars, lib_vars>>

\* Client::send_request, lines 445-451: the deadline passes before the
\* receiver has a value (tokio::time::timeout polls the receiver first).
\* The slot with this id is removed, whoever owns it.
Timeout(c) ==
    /\ pc[c] = "waiting"
    /\ default_timeout_ms > 0
    /\ chan[c] \in {"empty", "sending_Response", "sending_Error"}
    /\ pending_requests' = Remove(pending_requests, rid[c])
    /\ chan' = [DropSender(chan, OwnerOf(pending_requests, rid[c])) EXCEPT ![c] = "none"]
    /\ Return(c, "Timeout")
    /\ UNCHANGED <<connection_state, server_capabilities, connected, inbox,
                   sent, last_sent, events, loops, hs, next_id, calls,
                   srv_msgs, default_timeout_ms, client_options, consumed, cause, server_vars, lib_vars>>

\* Client::cancel_request: builds notifications/cancelled and hands it to
\* send_notification; nothing else.
CancelRequest(c, i) ==
    /\ pc[c] = "idle" /\ calls < MaxCalls
    /\ i \in 0..(next_id - 1)
    /\ calls' = calls + 1
    /\ IF connected
       THEN /\ Transmit(Notification("notifications/cancelled", i))
            /\ Return(c, "Ok")
       ELSE /\ UNCHANGED <<sent, last_sent>>
            /\ Return(c, "ConnectionClosed")
    /\ UNCHANGED <<connection_state, server_capabilities, pending_requests,
                   connected, inbox, events, loops, chan, hs, next_id,
                   srv_msgs, default_timeout_ms, client_options, consumed, cause, server_vars, lib_vars>>

\* ------------------------------------------------- connection lifecycle
\* Client::connect, lines 229-255: transport.connect (a new connection has
\* a new, empty receive channel) and the spawn of a receive loop.
Connect(c) ==
    /\ pc[c] = "idle" /\ calls < MaxCalls
    /\ loops < MaxLoops
    /\ calls' = calls + 1
    /\ op' = [op EXCEPT ![c] = "connect"]
    /\ connected' = TRUE
    /\ inbox' = IF connected THEN inbox ELSE <<>>
    /\ loops' = loops + 1
    /\ pc' = [pc EXCEPT ![c] = "initialize"]
    /\ hs' = [hs EXCEPT ![c] = <<>>]
    /\ result' = [result EXCEPT ![c] = "none"]
    /\ UNCHANGED <<connection_state, server_capabilities, pending_requests,
                   sent, last_sent, events, rid, chan, next_id, srv_msgs,
                   default_timeout_ms, client_options, consumed, cause, server_vars, lib_vars>>

\* Client::initialize, lines 271-295: return at once when a handshake is
\* under way or done, else enter Initializing and register the request
\* with the fixed id "init".
Initialize(c) ==
    /\ pc[c] = "initialize"
    /\ IF connection_state \in {"Initializing", "Initialized"}
       THEN /\ Return(c, "Ok")
            /\ UNCHANGED <<connection_state, pending_requests, chan>>
       ELSE /\ connection_state' = "Initializing"
            /\ Register(c, "connect", InitId)
    /\ UNCHANGED <<server_capabilities, connected, inbox, sent, last_sent,
                   events, loops, hs, next_id, calls, srv_msgs,
                   default_timeout_ms, client_options, consumed, cause, server_vars, lib_vars>>

\* Client::initialize, lines 325-331: the capabilities of the initialize
\* result are parsed and stored; the write lock on server_capabilities is
\* granted when no gated operation holds its read guard.
StoreCapabilities(c, json) ==
    /\ pc[c] = "store_caps"
    /\ \A d \in Callers : ~HoldsRead(d)
    /\ server_capabilities' = SomeCaps(parse_server_capabilities(json))
    /\ pc' = [pc EXCEPT ![c] = "set_initialized"]
    /\ UNCHANGED <<connection_state, pending_requests, connected, inbox, sent,
                   last_sent, events, loops, op, rid, result, chan, hs,
                   next_id, calls, srv_msgs, default_timeout_ms, client_options, consumed, cause, server_vars, lib_vars>>

\* Client::initialize, lines 334-337
SetInitialized(c) ==
    /\ pc[c] = "set_initialized"
    /\ connection_state' = "Initialized"
    /\ hs' = [hs EXCEPT ![c] = Append(@, "initialized")]
    /\ pc' = [pc EXCEPT ![c] = "notify"]
    /\ UNCHANGED <<server_capabilities, pending_requests, connected, inbox,
                   sent, last_sent, events, loops, op, rid, result, chan,
                   next_id, calls, srv_msgs, default_timeout_ms, client_options, consumed, cause, server_vars, lib_vars>>

\* Client::initialize, lines 340-346: send notifications/initialized
NotifyInitialized(c) ==
    /\ pc[c] = "notify"
    /\ IF connected
       THEN /\ Transmit(Notification("notifications/initialized", InitId))
            /\ hs' = [hs EXCEPT ![c] = Append(@, "notification_sent")]
            /\ pc' = [pc EXCEPT ![c] = "emit"]
            /\ UNCHANGED <<result, op, rid>>
       ELSE /\ Return(c, "ConnectionClosed")
            /\ UNCHANGED <<sent, last_sent, hs>>
    /\ UNCHANGED <<connection_state, server_capabilities, pending_requests,
                   connected, inbox, events, loops, chan, next_id, calls,
                   srv_msgs, default_timeout_ms, client_options, consumed, cause, server_vars, lib_vars>>

\* Client::initialize, lines 349-359: emit Connected and return Ok
EmitConnected(c) ==
    /\ pc[c] = "emit"
    /\ Len(events) < EventChannelCapacity
    /\ events' = Append(events, Event("Connected", cause[c]))
    /\ hs' = [hs EXCEPT ![c] = Append(@, "connected_emitted")]
    /\ Return(c, "Ok")
    /\ UNCHANGED <<connection_state, server_capabilities, pending_requests,
                   connected, inbox, sent, last_sent, loops, chan, next_id,
                   calls, srv_msgs, default_timeout_ms, client_options, consumed, cause, server_vars, lib_vars>>

\* Client::disconnect: transport.disconnect and nothing else
Disconnect(c) ==
    /\ pc[c] = "idle" /\ calls < MaxCalls
    /\ calls' = calls + 1
    /\ connected' = FALSE
    /\ Return(c, "Ok")
    /\ UNCHANGED <<connection_state, server_capabilities, pending_requests,
                   inbox, sent, last_sent, events, loops, chan, hs, next_id,
                   srv_msgs, default_timeout_ms, client_options, consumed, cause, server_vars, lib_vars>>

\* ------------------------------------------------------- receive loop
\* HandleMessage with the slot of a response looked up but left in the
\* table
HandleMessage_KeepsSlot ==
    /\ loops > BusyLoops
    /\ inbox # <<>>
    /\ Head(inbox) # Malformed
    /\ inbox' = Tail(inbox)
    /\ LET m == Head(inbox)
           owner == OwnerOf(pending_requests, m.id)
       IN /\ m.method \in ListChangedMethods => ~WriterWaiting
          /\ IF EmitsEvent(m)
             THEN /\ Len(events) < EventChannelCapacity
                  /\ events' = Append(events, Event(EventOf(m.method), ArrivalIndex))
                  /\ UNCHANGED <<pending_requests, chan>>
             ELSE /\ pending_requests' = IF m.method = "notifications/cancelled"
                                         THEN Remove(pending_requests, m.id)
                                         ELSE pending_requests
                  /\ chan' = IF m.kind \in {"Response", "Error"}
                             THEN IF owner \in Callers
                                  THEN [chan EXCEPT ![owner] = "sending_" \o m.kind]
                                  ELSE chan
                             ELSE IF NamesSlot(m) THEN DropSender(chan, owner)
                             ELSE chan
                  /\ UNCHANGED events
          /\ cause' = IF m.kind \in {"Response", "Error"} /\ owner \in Callers
                      THEN [cause EXCEPT ![owner] = ArrivalIndex]
                      ELSE cause
    /\ UNCHANGED <<connection_state, server_capabilities, connected, sent,
                   last_sent, loops, pc, op, rid, result, hs, next_id,
                   calls, srv_msgs, default_timeout_ms, client_options, consumed, server_vars, lib_vars>>

\* HandleMessage with try_send in place of send(..).await: an event that
\* finds the channel full is dropped
HandleMessage_DropsWhenFull ==
    /\ loops > BusyLoops
    /\ inbox # <<>>
    /\ Head(inbox) # Malformed
    /\ inbox' = Tail(inbox)
    /\ LET m == Head(inbox)
           owner == OwnerOf(pending_requests, m.id)
       IN /\ m.method \in ListChangedMethods => ~WriterWaiting
          /\ IF EmitsEvent(m)
             THEN /\ events' = IF Len(events) < EventChannelCapacity
                               THEN Append(events, Event(EventOf(m.method), ArrivalIndex))
                               ELSE events
                  /\ UNCHANGED <<pending_requests, chan>>
             ELSE /\ pending_requests' = IF NamesSlot(m)
                                         THEN Remove(pending_requests, m.id)
                                         ELSE pending_requests
                  /\ chan' = IF m.kind \in {"Response", "Error"}
                             THEN IF owner \in Callers
                                  THEN [chan EXCEPT ![owner] = "sending_" \o m.kind]
                                  ELSE chan
                             ELSE IF NamesSlot(m) THEN DropSender(chan, owner)
                             ELSE chan
                  /\ UNCHANGED events
          /\ cause' = IF m.kind \in {"Response", "Error"} /\ owner \in Callers
                      THEN [cause EXCEPT ![owner] = ArrivalIndex]
                      ELSE cause
    /\ UNCHANGED <<connection_state, server_capabilities, connected, sent,
                   last_sent, loops, pc, op, rid, result, hs, next_id,
                   calls, srv_msgs, default_timeout_ms, client_options, consumed, server_vars, lib_vars>>

\* HandleMessage with handle_cancelled_notification taking the slot out of
\* the table and keeping its sender alive
HandleMessage_CancelKeepsSender ==
    /\ loops > BusyLoops
    /\ inbox # <<>>
    /\ Head(inbox) # Malformed
    /\ inbox' = Tail(inbox)
    /\ LET m == Head(inbox)
           owner == OwnerOf(pending_requests, m.id)
       IN /\ m.method \in ListChangedMethods => ~WriterWaiting
          /\ IF EmitsEvent(m)
             THEN /\ Len(events) < EventChannelCapacity
                  /\ events' = Append(events, Event(EventOf(m.method), ArrivalIndex))
                  /\ UNCHANGED <<pending_requests, chan>>
             ELSE /\ pending_requests' = IF NamesSlot(m)
                                         THEN Remove(pending_requests, m.id)
                                         ELSE pending_requests
                  /\ chan' = IF m.kind \in {"Response", "Error"}
                             THEN IF owner \in Callers
                                  THEN [chan EXCEPT ![owner] = "sending_" \o m.kind]
                                  ELSE chan
                             ELSE chan
                  /\ UNCHANGED events
          /\ cause' = IF m.kind \in {"Response", "Error"} /\ owner \in Callers
                      THEN [cause EXCEPT ![owner] = ArrivalIndex]
                      ELSE cause
    /\ UNCHANGED <<connection_state, server_capabilities, connected, sent,
                   last_sent, loops, pc, op, rid, result, hs, next_id,
                   calls, srv_msgs, default_timeout_ms, client_options, consumed, server_vars, lib_vars>>

\* HandleMessage with a response or error whose id has no slot handed to a
\* caller that waits
HandleMessage_UnmatchedToWaiter ==
    /\ loops > BusyLoops
    /\ inbox # <<>>
    /\ Head(inbox) # Malformed
    /\ inbox' = Tail(inbox)
    /\ LET m == Head(inbox)
           slot == OwnerOf(pending_requests, m.id)
           waiters == {c \in Callers : chan[c] = "empty"}
           owner == IF slot \notin Callers /\ waiters # {}
                    THEN CHOOSE c \in waiters : TRUE
                    ELSE slot
       IN /\ m.method \in ListChangedMethods => ~WriterWaiting
          /\ IF EmitsEvent(m)
             THEN /\ Len(events) < EventChannelCapacity
                  /\ events' = Append(events, Event(EventOf(m.method), ArrivalIndex))
                  /\ UNCHANGED <<pending_requests, chan>>
             ELSE /\ pending_requests' = IF NamesSlot(m)
                                         THEN Remove(pending_requests, m.id)
                                         ELSE pending_requests
                  /\ chan' = IF m.kind \in {"Response", "Error"}
                             THEN IF owner \in Callers
                                  THEN [chan EXCEPT ![owner] = "sending_" \o m.kind]
                                  ELSE chan
                             ELSE IF NamesSlot(m) THEN DropSender(chan, slot)
                             ELSE chan
                  /\ UNCHANGED events
          /\ cause' = IF m.kind \in {"Response", "Error"} /\ owner \in Callers
                      THEN [cause EXCEPT ![owner] = ArrivalIndex]
                      ELSE cause
    /\ UNCHANGED <<connection_state, server_capabilities, connected, sent,
                   last_sent, loops, pc, op, rid, result, hs, next_id,
                   calls, srv_msgs, default_timeout_ms, client_options, consumed, server_vars, lib_vars>>

\* The loop of Client::connect takes the next frame and
\* ClientMessageHandler::handle_message dispatches it:
\*   handle_response / handle_error remove the slot and then send on its
\*   oneshot sender (a sender without receiver fails, an unknown id is a
\*   ProtocolError; both are only logged by the loop);
\*   handle_cancelled_notification removes the slot and drops it;
\*   the handlers of the other notifications send an event, and
\*   event_sender.send(..).await waits for room in the channel (the loop
\*   takes no further frame meanwhile); the list-changed ones first read
\*   the cached capabilities and return an error, which the loop logs,
\*   when these are absent or lack the flags;
\*   handle_request answers through respond_success / respond_error,
\*   which send nothing and return InternalError (logged by the loop);
\*   for roots/list of a client that offers roots it first sends the
\*   RootsChanged event.
HandleMessage ==
    /\ loops > BusyLoops
    /\ inbox # <<>>
    /\ Head(inbox) # Malformed
    /\ inbox' = Tail(inbox)
    /\ LET m == Head(inbox)
           owner == OwnerOf(pending_requests, m.id)
       IN /\ m.method \in ListChangedMethods => ~WriterWaiting
          /\ IF EmitsEvent(m)
             THEN /\ Len(events) < EventChannelCapacity
                  /\ events' = Append(events, Event(EventOf(m.method), ArrivalIndex))
                  /\ UNCHANGED <<pending_requests, chan>>
             ELSE /\ pending_requests' = IF NamesSlot(m)
                                         THEN Remove(pending_requests, m.id)
                                         ELSE pending_requests
                  /\ chan' = IF m.kind \in {"Response", "Error"}
                             THEN IF owner \in Callers
                                  THEN [chan EXCEPT ![owner] = "sending_" \o m.kind]
                                  ELSE chan
                             ELSE IF NamesSlot(m) THEN DropSender(chan, owner)
                             ELSE chan
                  /\ UNCHANGED events
          /\ cause' = IF m.kind \in {"Response", "Error"} /\ owner \in Callers
                      THEN [cause EXCEPT ![owner] = ArrivalIndex]
                      ELSE cause
    /\ UNCHANGED <<connection_state, server_capabilities, connected, sent,
                   last_sent, loops, pc, op, rid, result, hs, next_id,
                   calls, srv_msgs, default_timeout_ms, client_options, consumed, server_vars, lib_vars>>

\* handle_response / handle_error, pending.sender.send(..)
Deliver(c) ==
    /\ Delivering(c)
    /\ chan' = [chan EXCEPT ![c] = IF @ = "sending_Response" THEN "Response" ELSE "Error"]
    /\ UNCHANGED <<connection_state, server_capabilities, pending_requests,
                   connected, inbox, sent, last_sent, events, loops, pc, op,
                   rid, result, hs, next_id, calls, srv_msgs,
                   default_timeout_ms, client_options, consumed, cause, server_vars, lib_vars>>

\* Client::connect, lines 244-247: receive() hands the loop the ParseError
\* the transport queued for a frame it could not parse; the loop breaks
\* and sets the state to Disconnected. The transport stays connected.
ReceiveError ==
    /\ loops > BusyLoops
    /\ inbox # <<>>
    /\ Head(inbox) = Malformed
    /\ inbox' = Tail(inbox)
    /\ loops' = loops - 1
    /\ connection_state' = "Disconnected"
    /\ UNCHANGED <<server_capabilities, pending_requests, connected, sent,
                   last_sent, events, pc, op, rid, result, chan, hs, next_id,
                   calls, srv_msgs, default_timeout_ms, client_options,
                   consumed, cause, server_vars, lib_vars>>

\* Client::connect, lines 238-254: receive() reports the end of the stream
\* or an error on a transport that is no longer connected; the loop ends
\* and sets the state to Disconnected.
ReceiveLoopExit ==
    /\ loops > BusyLoops
    /\ ~connected
    /\ loops' = loops - 1
    /\ connection_state' = "Disconnected"
    /\ UNCHANGED <<server_capabilities, pending_requests, connected, inbox,
                   sent, last_sent, events, pc, op, rid, result, chan, hs,
                   next_id, calls, srv_msgs, default_timeout_ms, client_options, consumed, cause, server_vars, lib_vars>>

\* ---------------------------------------------------------- environment
\* The peer sends a response, an error or notifications/cancelled for an
\* id issued on this session.
PeerFrames == UNION {{Response(i), ErrorMsg(i),
                      Notification("notifications/cancelled", i)} : i \in Ids}

PeerSend(m) ==
    /\ connected
    /\ srv_msgs < MaxServerMsgs
    /\ Len(inbox) < MaxInbox
    /\ m.id < next_id
    /\ inbox' = Append(inbox, m)
    /\ srv_msgs' = srv_msgs + 1
    /\ UNCHANGED <<connection_state, server_capabilities, pending_requests,
                   connected, sent, last_sent, events, loops, pc, op, rid,
                   result, chan, hs, next_id, calls, default_timeout_ms, client_options, consumed, cause, server_vars, lib_vars>>

\* The peer closes the connection, or the connection fails.
TransportClose ==
    /\ connected
    /\ connected' = FALSE
    /\ UNCHANGED <<connection_state, server_capabilities, pending_requests,
                   inbox, sent, last_sent, events, loops, pc, op, rid, result,
                   chan, hs, next_id, calls, srv_msgs, default_timeout_ms, client_options, consumed, cause, server_vars, lib_vars>>

\* The peer sends a notification, within the budget of the run.
EventNotifications ==
    {Notification(method, 0) :
        method \in ListChangedMethods \cup UngatedEventMethods
                   \cup {"notifications/unknown"}}

PeerNotify(m, budget) ==
    /\ connected
    /\ srv_msgs < budget
    /\ Len(inbox) < MaxInbox
    /\ inbox' = Append(inbox, m)
    /\ srv_msgs' = srv_msgs + 1
    /\ UNCHANGED <<connection_state, server_capabilities, pending_requests,
                   connected, sent, last_sent, events, loops, pc, op, rid,
                   result, chan, hs, next_id, calls, default_timeout_ms, client_options,
                   consumed, cause, server_vars, lib_vars>>

\* The application takes the next event from the receiver Client::new gave
\* it.
ConsumeEvent ==
    /\ events # <<>>
    /\ Len(consumed) < MaxConsumed
    /\ consumed' = Append(consumed, Head(events))
    /\ events' = Tail(events)
    /\ UNCHANGED <<connection_state, server_capabilities, pending_requests,
                   connected, inbox, sent, last_sent, loops, pc, op, rid,
                   result, chan, hs, next_id, calls, srv_msgs,
                   default_timeout_ms, client_options, cause, server_vars, lib_vars>>

\* Client::connect by an application that opens one session: one of its
\* tasks calls connect, and not while a receive loop is alive.
Opener == CHOOSE c \in Callers : TRUE
OpenSession == loops = 0 /\ Connect(Opener)

Next ==
    \/ \E c \in Callers, o \in GatedOps : CallGated(c, o)
    \/ \E c \in Callers, o \in UngatedOps : CallUngated(c, o)
    \/ \E c \in Callers, i \in Ids : CallSendRequest(c, i)
    \/ \E c \in Callers, i \in Ids : CancelRequest(c, i)
    \/ \E c \in Callers : SendRequest(c)
    \/ \E c \in Callers : AwaitResponse(c)
    \/ \E c \in Callers : Timeout(c)
    \/ \E c \in Callers : Connect(c)
    \/ \E c \in Callers : Initialize(c)
    \/ \E c \in Callers, json \in ServerJsonChoices : StoreCapabilities(c, json)
    \/ \E c \in Callers : SetInitialized(c)
    \/ \E c \in Callers : NotifyInitialized(c)
    \/ \E c \in Callers : EmitConnected(c)
    \/ \E c \in Callers : Disconnect(c)
    \/ HandleMessage
    \/ \E c \in Callers : Deliver(c)
    \/ ReceiveLoopExit
    \/ \E m \in PeerFrames : PeerSend(m)
    \/ TransportClose

Spec == Init /\ [][Next]_vars

\* A session whose events the application follows: the handshake, the
\* notifications of the peer, the end of the connection and a reconnect.
EventNext ==
    \/ \E c \in Callers : Connect(c)
    \/ \E c \in Callers : Initialize(c)
    \/ \E c \in Callers : SendRequest(c)
    \/ \E c \in Callers : AwaitResponse(c)
    \/ \E c \in Callers : Timeout(c)
    \/ \E c \in Callers, json \in ServerJsonChoices : StoreCapabilities(c, json)
    \/ \E c \in Callers : SetInitialized(c)
    \/ \E c \in Callers : NotifyInitialized(c)
    \/ \E c \in Callers : EmitConnected(c)
    \/ HandleMessage
    \/ \E c \in Callers : Deliver(c)
    \/ ReceiveLoopExit
    \/ \E m \in {Response(InitId), ErrorMsg(InitId)} : PeerSend(m)
    \/ \E m \in EventNotifications : PeerNotify(m, MaxNotifications)
    \/ TransportClose
    \/ ConsumeEvent

EventSpec == Init /\ [][EventNext]_vars

\* The capabilities of a peer that sends resource updates
UpdatingPeerJson == {"resources", "resources.subscribe", "prompts", "logging"}

\* The peer sends a resource update in the session the handshake has made
PeerUpdate ==
    /\ connection_state = "Initialized"
    /\ PeerNotify(Notification("notifications/resources/updated", 0), MaxUpdates)

\* One session with a peer that keeps sending resource updates to an
\* application that takes its events when it likes.
BackpressureNext ==
    \/ OpenSession
    \/ \E c \in Callers : Initialize(c)
    \/ \E c \in Callers : SendRequest(c)
    \/ \E c \in Callers : AwaitResponse(c)
    \/ \E c \in Callers : Timeout(c)
    \/ \E c \in Callers : StoreCapabilities(c, UpdatingPeerJson)
    \/ \E c \in Callers : SetInitialized(c)
    \/ \E c \in Callers : NotifyInitialized(c)
    \/ \E c \in Callers : EmitConnected(c)
    \/ HandleMessage
    \/ \E c \in Callers : Deliver(c)
    \/ PeerSend(Response(InitId))
    \/ PeerUpdate
    \/ ConsumeEvent

BackpressureInit == Init /\ default_timeout_ms = DefaultTimeoutMs

BackpressureSpec == BackpressureInit /\ [][BackpressureNext]_vars

\* What the peer sends in a session besides the answer to initialize: a
\* frame that does not parse, a notification with an unknown method, a
\* response and an error for ids nobody waits for, requests, and a
\* well-formed progress notification.
UnknownId == MaxCalls + 1
ServerRequests == {Request(method, 1) :
                    method \in {"ping", "roots/list", "sampling/createMessage",
                                "unknown/method"}}
SessionFrames ==
    {Malformed, Notification("notifications/unknown", 0), Response(UnknownId),
     ErrorMsg(UnknownId), Notification("notifications/progress", 0)}
        \cup ServerRequests

\* One session of an application with any options, up to its end by the
\* peer, the transport or Client::disconnect
SessionNext ==
    \/ OpenSession
    \/ \E c \in Callers : Initialize(c)
    \/ \E c \in Callers : SendRequest(c)
    \/ \E c \in Callers : AwaitResponse(c)
    \/ \E c \in Callers : StoreCapabilities(c, UpdatingPeerJson)
    \/ \E c \in Callers : SetInitialized(c)
    \/ \E c \in Callers : NotifyInitialized(c)
    \/ \E c \in Callers : EmitConnected(c)
    \/ \E c \in Callers : Disconnect(c)
    \/ HandleMessage
    \/ \E c \in Callers : Deliver(c)
    \/ ReceiveError
    \/ ReceiveLoopExit
    \/ PeerSend(Response(InitId))
    \/ \E m \in SessionFrames : PeerNotify(m, MaxNotifications)
    \/ TransportClose
    \/ ConsumeEvent

SessionInit ==
    /\ ClientNew
    /\ ServerNew
    /\ LibraryIdle
    /\ options = {"logging"}
    /\ default_timeout_ms = 0
    /\ client_options \in ClientOptionChoices

SessionSpec == SessionInit /\ [][SessionNext]_vars

TypeOK ==
    /\ connection_state \in ConnectionState
    /\ client_options \in ClientOptionChoices
    /\ server_capabilities.flags \subseteq CapFlags
    /\ DOMAIN pending_requests \subseteq Ids
    /\ \A i \in DOMAIN pending_requests : pending_requests[i] \in Callers \cup {NoOwner}
    /\ connected \in BOOLEAN
    /\ loops \in 0..MaxLoops
    /\ calls \in 0..MaxCalls
    /\ next_id \in 1..(MaxCalls + 1)
    /\ cause \in [Callers -> Nat]

\* Scheduling: the runtime runs every client task that can take a step
\* (the callers' continuations, the timers, the receive loop), and every
\* connection ends at some time. The application is free never to call
\* again and the peer is free never to answer.
FairSpec ==
    /\ Spec
    /\ \A c \in Callers :
        /\ WF_vars(SendRequest(c))
        /\ WF_vars(AwaitResponse(c))
        /\ WF_vars(Timeout(c))
        /\ WF_vars(Initialize(c))
        /\ WF_vars(\E json \in ServerJsonChoices : StoreCapabilities(c, json))
        /\ WF_vars(SetInitialized(c))
        /\ WF_vars(NotifyInitialized(c))
        /\ WF_vars(EmitConnected(c))
        /\ WF_vars(Deliver(c))
    /\ WF_vars(HandleMessage)
    /\ WF_vars(ReceiveLoopExit)
    /\ WF_vars(TransportClose)

\* ------------------------------------------------ server message handling
\* The capability flags of ServerOptions a request method is gated by
ServerGate(method) ==
    CASE method \in {"resources/list", "resources/templates/list",
                     "resources/read"} -> {"resources"}
      [] method \in {"resources/subscribe", "resources/unsubscribe"}
            -> {"resources", "resources_subscribe"}
      [] method \in {"prompts/list", "prompts/get"} -> {"prompts"}
      [] method \in {"tools/list", "tools/call"} -> {"tools"}
      [] method = "logging/setLevel" -> {"logging"}
      [] method = "completion/complete" -> {"completions"}
      [] OTHER -> {}

\* The fixed result each handler answers with
StubResult(method) ==
    CASE method = "resources/list" -> "resources: []"
      [] method = "resources/templates/list" -> "resourceTemplates: []"
      [] method = "resources/read" -> "contents: []"
      [] method = "prompts/list" -> "prompts: []"
      [] method = "prompts/get" -> "messages: []"
      [] method = "tools/list" -> "tools: []"
      [] method = "tools/call" -> "content: []"
      [] method = "completion/complete" -> "completion: values: []"
      [] OTHER -> "{}"

\* MethodReply with the subscription methods gated by "resources" alone
MethodReply_SubscribeNeedsOnlyResources(m) ==
    IF ~(ServerGate(m.method) \ {"resources_subscribe"} \subseteq options)
    THEN RpcError(m.id, MethodNotFound)
    ELSE IF WantsParams(m.method) /\ m.params.shape = "missing"
    THEN Failed("ProtocolError")
    ELSE IF ReadsParams(m.method) /\ m.params.shape = "malformed"
    THEN Failed("ParseError")
    ELSE RpcResponse(m.id, StubResult(m.method))

\* handle_list_resources .. handle_complete: the capability check, the
\* parse of params, and the fixed result
MethodReply(m) ==
    IF ~(ServerGate(m.method) \subseteq options)
    THEN RpcError(m.id, MethodNotFound)
    ELSE IF WantsParams(m.method) /\ m.params.shape = "missing"
    THEN Failed("ProtocolError")
    ELSE IF ReadsParams(m.method) /\ m.params.shape = "malformed"
    THEN Failed("ParseError")
    ELSE RpcResponse(m.id, StubResult(m.method))

\* ServerMessageHandler::handle_initialize: parse the params, record them
\* on the connection, emit ClientConnected and answer with the server's
\* capabilities; event_sender.send fails when the receiver is gone, and
\* the `?` returns InternalError after set_initialized. The connection is
\* looked up first (connections.get_mut).
handle_initialize(cid, m) ==
    IF cid \notin DOMAIN connections
    THEN /\ reply' = Failed("InternalError")
         /\ UNCHANGED <<connections, server_events>>
    ELSE IF m.params.shape = "missing"
    THEN /\ reply' = Failed("ProtocolError")
         /\ UNCHANGED <<connections, server_events>>
    ELSE IF m.params.shape = "malformed"
    THEN /\ reply' = Failed("ParseError")
         /\ UNCHANGED <<connections, server_events>>
    ELSE IF ~event_receiver
    THEN /\ connections' =
              [connections EXCEPT ![cid] =
                  set_initialized(@, m.params.clientInfo,
                                  m.params.protocolVersion,
                                  parse_client_capabilities(m.params.capabilities))]
         /\ reply' = Failed("InternalError")
         /\ UNCHANGED server_events
    ELSE /\ Len(server_events) < ServerEventCapacity
         /\ connections' =
              [connections EXCEPT ![cid] =
                  set_initialized(@, m.params.clientInfo,
                                  m.params.protocolVersion,
                                  parse_client_capabilities(m.params.capabilities))]
         /\ server_events' = Append(server_events,
                                    [kind |-> "ClientConnected", client_id |-> cid])
         /\ reply' = RpcResponse(m.id, "initialize")

\* ServerMessageHandler::handle_request, lines 94-121: the match on the
\* method. The two subscription handlers look the connection up after the
\* capability check and the parse of params.
dispatch(cid, m) ==
    IF m.method = "initialize"
    THEN handle_initialize(cid, m)
    ELSE IF m.method \notin RequestMethods
    THEN /\ reply' = RpcError(m.id, MethodNotFound)
         /\ UNCHANGED <<connections, server_events>>
    ELSE IF /\ m.method \in {"resources/subscribe", "resources/unsubscribe"}
            /\ MethodReply(m).kind = "Response"
            /\ cid \notin DOMAIN connections
    THEN /\ reply' = Failed("InternalError")
         /\ UNCHANGED <<connections, server_events>>
    ELSE /\ reply' = MethodReply(m)
         /\ connections' =
              IF MethodReply(m).kind # "Response" THEN connections
              ELSE IF m.method = "resources/subscribe"
              THEN [connections EXCEPT ![cid] = subscribe_resource(@, m.params.uri)]
              ELSE IF m.method = "resources/unsubscribe"
              THEN [connections EXCEPT ![cid] = unsubscribe_resource(@, m.params.uri)]
              ELSE connections
         /\ UNCHANGED server_events

\* ServerMessageHandler::handle_request
handle_request(cid, m) ==
    IF operational_state # "Running"
    THEN /\ reply' = RpcError(m.id, InternalErrorCode)
         /\ UNCHANGED <<connections, server_events>>
    ELSE dispatch(cid, m)

\* ServerMessageHandler::handle_notification and the four handlers
handle_notification(cid, m) ==
    CASE m.method = "notifications/initialized" ->
            /\ reply' = IF connections[cid].initialized
                        THEN NoReply ELSE Failed("ProtocolError")
            /\ UNCHANGED <<connections, server_events>>
      [] m.method \in {"notifications/cancelled", "notifications/progress"} ->
            /\ reply' = IF m.params.shape = "missing" THEN Failed("ProtocolError")
                        ELSE IF m.params.shape = "malformed" THEN Failed("ParseError")
                        ELSE NoReply
            /\ UNCHANGED <<connections, server_events>>
      [] m.method = "notifications/roots/list_changed" ->
            IF "roots_list_changed" \notin connections[cid].capabilities
            THEN /\ reply' = Failed("ProtocolError")
                 /\ UNCHANGED <<connections, server_events>>
            ELSE IF ~event_receiver
            THEN /\ reply' = Failed("InternalError")
                 /\ UNCHANGED <<connections, server_events>>
            ELSE /\ Len(server_events) < ServerEventCapacity
                 /\ server_events' = Append(server_events,
                                            [kind |-> "RootsUpdated", client_id |-> cid])
                 /\ reply' = NoReply
                 /\ UNCHANGED connections
      [] OTHER ->
            /\ reply' = Failed("ProtocolError")
            /\ UNCHANGED <<connections, server_events>>

\* Server::handle_message
ServerHandleMessage(cid, m) ==
    /\ steps < MaxSteps
    /\ steps' = steps + 1
    /\ IF cid \notin DOMAIN connections
       THEN /\ reply' = Failed("InternalError")
            /\ UNCHANGED <<connections, server_events>>
       ELSE IF m.kind = "Request" THEN handle_request(cid, m)
       ELSE IF m.kind = "Notification" THEN handle_notification(cid, m)
       ELSE /\ reply' = Failed("ProtocolError")
            /\ UNCHANGED <<connections, server_events>>
    /\ UNCHANGED <<operational_state, options, outcome, emitted,
                   service_calls, event_receiver, handling, client_vars,
                   lib_vars>>

\* ---------------------------------------------- server outbound operations
OutboundOps == {"send_log", "notify_resources_changed",
                "notify_resource_updated", "notify_prompts_changed",
                "notify_tools_changed", "send_progress", "cancel_request",
                "request_roots"}

\* The flag of the connection's CapabilityState an outbound operation tests
\* (send_progress and cancel_request test none)
OutboundGate(o) ==
    CASE o = "send_log" -> {"logging"}
      [] o = "notify_resources_changed" -> {"resources_list_changed"}
      [] o = "notify_resource_updated" -> {"resources_subscribe"}
      [] o = "notify_prompts_changed" -> {"prompts_list_changed"}
      [] o = "notify_tools_changed" -> {"tools_list_changed"}
      [] o = "request_roots" -> {"roots"}
      [] OTHER -> {}

\* Server::send_notification: checks that the client is known and returns
\* Ok; the notification is handed to no transport.
send_notification(cid) ==
    IF cid \in DOMAIN connections THEN "Ok" ELSE "InternalError"

\* Server::send_log .. Server::request_roots
Outbound(cid, o) ==
    /\ steps < MaxSteps
    /\ steps' = steps + 1
    /\ outcome' =
         IF o \in {"send_progress", "cancel_request"} THEN send_notification(cid)
         ELSE IF cid \notin DOMAIN connections THEN "InternalError"
         ELSE IF ~(OutboundGate(o) \subseteq connections[cid].capabilities)
         THEN "UnsupportedFeature"
         ELSE IF o = "request_roots" THEN "Ok"
         ELSE send_notification(cid)
    /\ UNCHANGED <<operational_state, options, connections, reply, emitted,
                   service_calls, server_events, event_receiver,
                   handling, client_vars, lib_vars>>

\* ------------------------------------------------------ server lifecycle
\* Server::start
Start ==
    /\ steps < MaxSteps
    /\ steps' = steps + 1
    /\ operational_state' = "Running"
    /\ UNCHANGED <<options, connections, reply, outcome, emitted,
                   service_calls, server_events, event_receiver,
                   handling, client_vars, lib_vars>>

\* Server::stop
Stop ==
    /\ steps < MaxSteps
    /\ steps' = steps + 1
    /\ connections' = [c \in {} |-> NewConnection]
    /\ operational_state' = "Stopped"
    /\ UNCHANGED <<options, reply, outcome, emitted, service_calls,
                   server_events, event_receiver, handling, client_vars,
                   lib_vars>>

\* Server::add_connection: DashMap::insert of a new Connection
AddConnection(cid) ==
    /\ steps < MaxSteps
    /\ steps' = steps + 1
    /\ connections' = [c \in DOMAIN connections \cup {cid} |->
                          IF c = cid THEN NewConnection ELSE connections[c]]
    /\ UNCHANGED <<operational_state, options, reply, outcome, emitted,
                   service_calls, server_events, event_receiver,
                   handling, client_vars, lib_vars>>

\* Server::remove_connection
RemoveConnection(cid) ==
    /\ steps < MaxSteps
    /\ steps' = steps + 1
    /\ connections' = [c \in DOMAIN connections \ {cid} |-> connections[c]]
    /\ UNCHANGED <<operational_state, options, reply, outcome, emitted,
                   service_calls, server_events, event_receiver,
                   handling, client_vars, lib_vars>>

ServerNext ==
    \/ Start
    \/ Stop
    \/ \E cid \in ClientIds : AddConnection(cid)
    \/ \E cid \in ClientIds : RemoveConnection(cid)
    \/ \E cid \in ClientIds, m \in ClientMessages : ServerHandleMessage(cid, m)
    \/ \E cid \in ClientIds, o \in OutboundOps : Outbound(cid, o)

ServerSpec == ServerInit /\ [][ServerNext]_vars

ServerTypeOK ==
    /\ operational_state \in OperationalState
    /\ options \subseteq CapFlags
    /\ DOMAIN connections \subseteq ClientIds
    /\ \A c \in DOMAIN connections :
          connections[c].capabilities \subseteq CapabilityFlags
    /\ reply.kind \in {"Response", "Error", "None", "Err"}
    /\ steps \in 0..MaxSteps

\* ---------------------------------------------------------------- claims
IsPrefix(s, t) == Len(s) <= Len(t) /\ \A k \in 1..Len(s) : s[k] = t[k]

\* A caller whose own slot is in the correlation table
OwnsSlot(p, c) == \E i \in DOMAIN p : p[i] = c

\* C1: every request that was sent is resolved: its waiter is eventually
\* released (with the response, or with ConnectionClosed once the session
\* is torn down); no waiter stays blocked forever.
C1_EveryWaiterReleased ==
    \A c \in Callers : (pc[c] = "waiting") ~> (pc[c] # "waiting")

\* The capability that gates each operation, as the claim C2 lists them
GatingCapability(o) ==
    IF o \in {"subscribe_resource", "unsubscribe_resource"}
    THEN {"resources", "resources_subscribe"}
    ELSE IF o \in {"list_resources", "list_resource_templates", "read_resource"}
    THEN {"resources"}
    ELSE IF o \in {"list_prompts", "get_prompt"} THEN {"prompts"}
    ELSE IF o \in {"list_tools", "call_tool"} THEN {"tools"}
    ELSE IF o = "set_logging_level" THEN {"logging"}
    ELSE {"completions"}

\* C2: a gated operation called when the cached capabilities lack its
\* gating capability returns UnsupportedFeature at once; nothing is handed
\* to the transport and no slot is added to the correlation table.
C2_GatedWithoutCapabilityIsLocal ==
    [][\A c \in Callers, o \in GatedOps :
        (/\ CallGated(c, o)
         /\ server_capabilities.present
         /\ ~(GatingCapability(o) \subseteq server_capabilities.flags))
        => (/\ result'[c] = "UnsupportedFeature"
            /\ pc'[c] = "idle"
            /\ sent' = sent /\ last_sent' = last_sent
            /\ pending_requests' = pending_requests)]_vars

C2_Witness ==
    \E c \in Callers :
        /\ result[c] = "UnsupportedFeature"
        /\ server_capabilities.present
        /\ "resources" \in server_capabilities.flags

\* C3: in Disconnected, Connecting or Initializing every request operation
\* other than initialize fails at once with NotInitialized, registers
\* nothing and sends nothing.
C3_NotInitializedBeforeHandshake ==
    [][\A c \in Callers :
        (connection_state \in {"Disconnected", "Connecting", "Initializing"}
         /\ \/ \E o \in GatedOps : CallGated(c, o)
            \/ \E o \in UngatedOps : CallUngated(c, o))
        => (/\ result'[c] = "NotInitialized"
            /\ pc'[c] = "idle"
            /\ sent' = sent
            /\ pending_requests' = pending_requests)]_vars

\* C4: a request id is in the correlation table only while the state is
\* Initializing or Initialized.
C4_PendingImpliesActive ==
    DOMAIN pending_requests # {}
        => connection_state \in {"Initializing", "Initialized"}

\* The response of c's request has arrived while c's deadline is running:
\* it is queued in the transport, or the receive loop is delivering it, or
\* it is in c's channel.
ResponseRacesTimeout(c) ==
    /\ pc[c] = "waiting"
    /\ default_timeout_ms > 0
    /\ \/ chan[c] \in {"sending_Response", "sending_Error", "Response", "Error"}
       \/ /\ chan[c] = "empty"
          /\ \E k \in 1..Len(inbox) :
                inbox[k].kind \in {"Response", "Error"} /\ inbox[k].id = rid[c]

\* C5: when the timeout of a request races with the arrival of its
\* response, the caller leaves the wait with exactly one outcome, Timeout
\* or the delivered response, and its slot is then out of the table.
C5_TimeoutRaceOneOutcome ==
    [][\A c \in Callers :
        (ResponseRacesTimeout(c) /\ pc'[c] # "waiting")
        => (/\ result'[c] \in {"Timeout", "Response", "Error"} \/ pc'[c] = "store_caps"
            /\ result'[c] = "Timeout" => rid[c] \notin DOMAIN pending_requests'
            /\ ~OwnsSlot(pending_requests', c))]_vars

C5_Witness ==
    \E c \in Callers :
        /\ pc[c] = "waiting"
        /\ default_timeout_ms > 0
        /\ Delivering(c)
        /\ rid[c] \notin DOMAIN pending_requests

\* C6: when the deadline of a request passes without a response, its slot
\* is removed, the waiter gets Timeout and nothing is sent to the peer.
C6_TimeoutIsLocal ==
    [][\A c \in Callers :
        Timeout(c)
        => (/\ rid[c] \notin DOMAIN pending_requests'
            /\ ~OwnsSlot(pending_requests', c)
            /\ result'[c] = "Timeout"
            /\ pc'[c] = "idle"
            /\ sent' = sent /\ last_sent' = last_sent)]_vars

C6_Witness ==
    \E c \in Callers :
        /\ result[c] = "Timeout"
        /\ pc[c] = "idle"
        /\ sent > 0

\* C7: a request issued with the id of a request that is still in flight
\* fails at once with InternalError, is not sent, and leaves the slot and
\* the waiter of the request in flight as they were.
C7_IdCollisionRejected ==
    [][\A c \in Callers, i \in Ids :
        (/\ CallSendRequest(c, i)
         /\ i \in DOMAIN pending_requests
         /\ pending_requests[i] \in Callers
         /\ pc[pending_requests[i]] = "waiting")
        => (/\ result'[c] = "InternalError"
            /\ pc'[c] = "idle"
            /\ pending_requests' = pending_requests
            /\ chan' = chan
            /\ sent' = sent)]_vars

\* C8: cancel_request(id) for a request in flight sends
\* notifications/cancelled with that id, removes the slot of the id, and
\* releases the waiter of that request with a Cancelled error.
C8_CancelReleasesWaiter ==
    [][\A c \in Callers, i \in Ids :
        (/\ CancelRequest(c, i)
         /\ connected
         /\ i \in DOMAIN pending_requests
         /\ pending_requests[i] \in Callers
         /\ pc[pending_requests[i]] = "waiting")
        => (/\ last_sent' = Notification("notifications/cancelled", i)
            /\ sent' = sent + 1
            /\ i \notin DOMAIN pending_requests'
            /\ chan'[pending_requests[i]] = "Cancelled")]_vars

\* C9: when the session is torn down (the receive loop ends after a
\* disconnect, a close or a transport error), the correlation table is
\* empty and every pending waiter has ConnectionClosed.
C9_TeardownDrainsTable ==
    [][ReceiveLoopExit
        => (/\ DOMAIN pending_requests' = {}
            /\ \A c \in Callers :
                OwnsSlot(pending_requests, c) => chan'[c] = "ConnectionClosed")]_vars

\* The order of the handshake of Client::initialize
HandshakeOrder ==
    <<"request_sent", "response_received", "initialized",
      "notification_sent", "connected_emitted">>

\* C10: the steps of every handshake occur in the order initialize sent,
\* response received, state Initialized, notifications/initialized sent,
\* Connected emitted; so the notification and the event never occur for a
\* handshake whose request got an error, timed out or was not answered.
C10_HandshakeOrder ==
    \A c \in Callers : IsPrefix(hs[c], HandshakeOrder)

C10_Witness ==
    \E c \in Callers :
        /\ hs[c] = HandshakeOrder
        /\ result[c] = "Ok"
        /\ last_sent = Notification("notifications/initialized", InitId)

\* ------------------------------------------------- claims on the server
\* A step of Server::handle_message for a request on a registered
\* connection of a running server
ServesRequest(cid, m) ==
    /\ m.kind = "Request"
    /\ operational_state = "Running"
    /\ cid \in DOMAIN connections
    /\ ServerHandleMessage(cid, m)

\* C11: on a connection that has not completed the handshake, a request
\* other than initialize is answered with the error -32002, reaches no
\* method handler, changes no connection state and leaves the connection
\* registered.
C11_RequestBeforeHandshakeRejected ==
    [][\A cid \in ClientIds, m \in ClientMessages :
        (/\ m.method # "initialize"
         /\ ServesRequest(cid, m)
         /\ ~connections[cid].initialized)
        => (/\ reply' = RpcError(m.id, -32002)
            /\ connections' = connections)]_vars

\* C12: every request handled on a registered connection gets exactly one
\* reply, a Response or an Error with the id of the request, also when its
\* params are missing or malformed; a notification gets no reply.
C12_OneReplyPerRequest ==
    [][\A cid \in ClientIds, m \in ClientMessages :
        (/\ operational_state = "Running"
         /\ cid \in DOMAIN connections
         /\ ServerHandleMessage(cid, m))
        => (/\ m.kind = "Request"
                => (reply'.kind \in {"Response", "Error"} /\ reply'.id = m.id)
            /\ m.kind = "Notification"
                => reply'.kind \notin {"Response", "Error"})]_vars

\* C13: a second initialize on a connection that one initialize has
\* initialized is rejected with an error and leaves the recorded client
\* info, protocol version and capabilities as they were.
C13_SecondInitializeRejected ==
    [][\A cid \in ClientIds, m \in ClientMessages :
        (/\ m.method = "initialize"
         /\ ServesRequest(cid, m)
         /\ connections[cid].initialized)
        => (/\ reply'.kind \in {"Error", "Err"}
            /\ connections'[cid] = connections[cid])]_vars

\* C14: the initialized flag of a connection goes from false to true only
\* by a notifications/initialized that arrives after the initialize
\* response; one that arrives before initialize, or on a connection whose
\* flag is set already, is an error and changes nothing.
C14_InitializedNotificationFlipsFlag ==
    [][\A cid \in ClientIds, m \in ClientMessages :
        (cid \in DOMAIN connections /\ ServerHandleMessage(cid, m))
        => LET isNote == /\ m.kind = "Notification"
                         /\ m.method = "notifications/initialized"
               answered == connections[cid].client_info # "None"
           IN /\ (~connections[cid].initialized /\ connections'[cid].initialized)
                    => (isNote /\ answered)
              /\ (isNote /\ (connections[cid].initialized \/ ~answered))
                    => (reply'.kind = "Err" /\ connections' = connections)]_vars

\* The capability a request method is gated by, as the claims list them
ConfiguredCapability(method) ==
    IF method \in {"resources/subscribe", "resources/unsubscribe"}
    THEN {"resources", "resources_subscribe"}
    ELSE IF method \in {"resources/list", "resources/templates/list", "resources/read"}
    THEN {"resources"}
    ELSE IF method \in {"prompts/list", "prompts/get"} THEN {"prompts"}
    ELSE IF method \in {"tools/list", "tools/call"} THEN {"tools"}
    ELSE IF method = "logging/setLevel" THEN {"logging"}
    ELSE IF method = "completion/complete" THEN {"completions"}
    ELSE {}

\* A method the server does not know, or one whose capability it was not
\* configured with
NotOffered(m) ==
    \/ m.method \notin RequestMethods
    \/ ~(ConfiguredCapability(m.method) \subseteq options)

\* C15 as stated: a request with an unknown method, or with a method whose
\* capability the server was not configured with, is answered with the
\* error -32601 and the connections (their subscriptions included) stay
\* as they were.
C15_NotOfferedIsMethodNotFound ==
    [][\A cid \in ClientIds, m \in ClientMessages :
        (/\ m.kind = "Request"
         /\ NotOffered(m)
         /\ cid \in DOMAIN connections
         /\ ServerHandleMessage(cid, m))
        => (/\ reply' = RpcError(m.id, -32601)
            /\ connections' = connections)]_vars

\* C15 amended: on a running server such a request is answered with
\* -32601; on a server that is not running it is answered with -32603; in
\* both cases the connections stay as they were.
C15_NotOfferedOnRunningServer ==
    [][\A cid \in ClientIds, m \in ClientMessages :
        (/\ m.kind = "Request"
         /\ NotOffered(m)
         /\ cid \in DOMAIN connections
         /\ ServerHandleMessage(cid, m))
        => (/\ reply' = RpcError(m.id, IF operational_state = "Running"
                                       THEN -32601 ELSE -32603)
            /\ connections' = connections)]_vars

C15_Witness ==
    /\ operational_state = "Running"
    /\ reply.kind = "Error" /\ reply.code = -32601
    /\ "resources" \in options /\ "resources_subscribe" \notin options
    /\ \E cid \in DOMAIN connections : connections[cid].initialized

\* C16: a request that passes its capability gate invokes the service
\* handler exactly once and is answered with the handler's result or with
\* the handler's error.
C16_GatedRequestInvokesService ==
    [][\A cid \in ClientIds, m \in ClientMessages :
        (/\ m.method \in RequestMethods \ {"initialize", "ping"}
         /\ ConfiguredCapability(m.method) \subseteq options
         /\ m.params.shape = "valid"
         /\ ServesRequest(cid, m))
        => (/\ service_calls' = service_calls + 1
            /\ reply'.kind \in {"Response", "Error"}
            /\ reply'.id = m.id)]_vars

\* The capability of an outbound operation was agreed in the handshake of
\* the connection: the server offers it, or (for roots) the client does.
Negotiated(cid, o) ==
    CASE o = "send_log" -> "logging" \in options
      [] o = "notify_resources_changed"
            -> {"resources", "resources_list_changed"} \subseteq options
      [] o = "notify_resource_updated"
            -> {"resources", "resources_subscribe"} \subseteq options
      [] o = "notify_prompts_changed"
            -> {"prompts", "prompts_list_changed"} \subseteq options
      [] o = "notify_tools_changed"
            -> {"tools", "tools_list_changed"} \subseteq options
      [] o = "request_roots" -> "roots" \in connections[cid].capabilities
      [] OTHER -> TRUE

\* C17: an outbound operation on a connection that has done the handshake
\* emits its notification or request when its capability was negotiated
\* with the peer, and returns UnsupportedFeature and emits nothing when it
\* was not.
C17_OutboundChecksNegotiatedCapability ==
    [][\A cid \in ClientIds, o \in OutboundOps :
        (/\ operational_state = "Running"
         /\ cid \in DOMAIN connections
         /\ connections[cid].initialized
         /\ Outbound(cid, o))
        => IF Negotiated(cid, o)
           THEN outcome' = "Ok" /\ emitted' = emitted + 1
           ELSE outcome' = "UnsupportedFeature" /\ emitted' = emitted]_vars

\* ------------------------------------------------ client event claims
\* The feature and list-changed flag a list-changed notification is about
MatchingCapability(method) ==
    CASE method = "notifications/resources/list_changed"
            -> {"resources", "resources_list_changed"}
      [] method = "notifications/prompts/list_changed"
            -> {"prompts", "prompts_list_changed"}
      [] method = "notifications/tools/list_changed"
            -> {"tools", "tools_list_changed"}

\* C18: a list-changed notification is turned into its event only when
\* initialize has completed and the cached server capabilities hold the
\* matching feature and its list-changed flag; otherwise the receive loop
\* emits no event and the session goes on (same state, loop still running).
C18_ListChangedNeedsCapability ==
    [][(/\ inbox # <<>>
        /\ Head(inbox).kind = "Notification"
        /\ Head(inbox).method \in ListChangedMethods
        /\ HandleMessage)
       => IF /\ connection_state = "Initialized"
             /\ server_capabilities.present
             /\ MatchingCapability(Head(inbox).method)
                    \subseteq server_capabilities.flags
          THEN TRUE
          ELSE /\ events' = events
               /\ loops' = loops
               /\ connection_state' = connection_state]_vars

\* The events in the order the application gets them
EventStream == consumed \o events

\* C19: the events come out in the order their causes arrived on the wire;
\* Connected, caused by the response to initialize, precedes the event of
\* every notification that arrived after that response.
C19_EventsInArrivalOrder ==
    \A i, j \in 1..Len(EventStream) :
        i < j => EventStream[i].seq < EventStream[j].seq

\* The events of notifications, in the order the application gets them
NotificationEvents == SelectSeq(EventStream, LAMBDA e : e.kind # "Connected")

\* C20: with one session, the channel never holds more than its capacity,
\* the receive loop turns every notification whose handler accepts it into
\* an event (waiting while the channel is full), no event leaves the
\* stream except by the application taking it, and the events of
\* notifications come out in arrival order.
C20_BackpressureKeepsEveryEvent ==
    /\ [](Len(events) <= EventChannelCapacity)
    /\ [](LET delivered == NotificationEvents
          IN \A i \in 1..(Len(delivered) - 1) :
                delivered[i].seq < delivered[i + 1].seq)
    /\ [][/\ (inbox # <<>> /\ Accepts(Head(inbox)) /\ HandleMessage)
             => events' = Append(events, Event(EventOf(Head(inbox).method),
                                               ArrivalIndex))
          /\ \/ EventStream' = EventStream
             \/ /\ Len(EventStream') = Len(EventStream) + 1
                /\ SubSeq(EventStream', 1, Len(EventStream)) = EventStream]_vars

\* The receive loop waits with an accepted notification on a full channel
\* after the application has taken events before
C20_Witness ==
    /\ Len(events) = EventChannelCapacity
    /\ consumed # <<>>
    /\ inbox # <<>>
    /\ Accepts(Head(inbox))
    /\ loops > 0

\* ------------------------------------------------ client session claims
\* A frame whose handling is a parse error or a protocol error
ErroneousFrame(m) ==
    \/ m = Malformed
    \/ m.kind = "Notification" /\ m.method = "notifications/unknown"
    \/ m.kind \in {"Response", "Error"} /\ m.id \notin DOMAIN pending_requests

\* C21: when the receive loop takes a frame that does not parse, a
\* notification with an unknown method or a response for an unknown id, the
\* loop keeps running and the connection state stays what it was (so the
\* frames behind it are still taken).
C21_ErroneousFrameIsSkipped ==
    [][(/\ loops > 0
        /\ inbox # <<>>
        /\ ErroneousFrame(Head(inbox))
        /\ inbox' = Tail(inbox))
       => /\ loops' = loops
          /\ connection_state' = connection_state]_vars

\* C22: when the receive loop exits (after Client::disconnect, a close or a
\* failure of the transport), the connection state becomes Disconnected and
\* one Disconnected event is put on the event stream.
C22_LoopExitEmitsDisconnected ==
    [][loops' < loops
       => /\ connection_state' = "Disconnected"
          /\ Len(events') = Len(events) + 1
          /\ events'[Len(events')].kind = "Disconnected"
          /\ SubSeq(events', 1, Len(events)) = events]_vars

\* C23: handling a request of the server sends exactly one reply with the
\* request's id on the transport: a result for ping, a result after the
\* RootsChanged event for roots/list of a client that offers roots and
\* acknowledges automatically, error -32601 for roots/list of a client
\* without roots and for an unknown method.
C23_ServerRequestAnsweredOnce ==
    [][(/\ inbox # <<>>
        /\ Head(inbox).kind = "Request"
        /\ HandleMessage)
       => LET m == Head(inbox)
          IN /\ sent' = sent + 1
             /\ last_sent'.id = m.id
             /\ last_sent'.kind \in {"Response", "Error"}
             /\ m.method = "ping" => last_sent' = Response(m.id)
             /\ (/\ m.method = "roots/list"
                 /\ client_options.roots
                 /\ client_options.auto_acknowledge_roots_changed)
                => /\ last_sent' = Response(m.id)
                   /\ events' = Append(events, Event("RootsChanged", ArrivalIndex))
             /\ (m.method = "roots/list" /\ ~client_options.roots)
                => last_sent' = ErrorMsg(m.id) /\ events' = events
             /\ m.method = "unknown/method" => last_sent' = ErrorMsg(m.id)]_vars

\* ------------------------------------------------------- JSON-RPC codec
\* serde_json::Value as far as the envelopes look at it: the type of the
\* value and a name for its content. Absent is a key an object does not
\* have, and None of an Option field.
JsonNull == [t |-> "null", v |-> ""]
JsonString(s) == [t |-> "string", v |-> s]
JsonNumber(s) == [t |-> "number", v |-> s]
JsonObject(s) == [t |-> "object", v |-> s]
Absent == [t |-> "absent", v |-> ""]

\* Items in a batch
MaxBatch == 2

\* JSONRPCErrorInfo without and with data, and the values used for params
\* and result
ErrorInfos == {JsonObject("error"), JsonObject("error+data")}
RequestIdValues == {JsonNumber("1"), JsonString("a")}
ParamValues == {JsonObject("{}")}
ResultValues == {JsonObject("{}"), JsonNull}
JSONRPC_VERSION == "2.0"

\* A value of JSONRPCMessage / JSONRPCBatchRequestItem /
\* JSONRPCBatchResponseItem: the variant and the fields of its struct
Envelope(variant, jsonrpc, id, method, params, res, error, items) ==
    [variant |-> variant, jsonrpc |-> jsonrpc, id |-> id, method |-> method,
     params |-> params, result |-> res, error |-> error, items |-> items]
NoEnvelope == Envelope("none", "", Absent, "", Absent, Absent, Absent, <<>>)

\* JSONRPCRequest::new, JSONRPCNotification::new, JSONRPCResponse::new,
\* JSONRPCError::new
RequestItems ==
    {Envelope("Request", JSONRPC_VERSION, i, m, p, Absent, Absent, <<>>) :
        i \in RequestIdValues, m \in {"ping", "tools/call"},
        p \in ParamValues \cup {Absent}}
NotificationItems ==
    {Envelope("Notification", JSONRPC_VERSION, Absent, m, p, Absent, Absent, <<>>) :
        m \in {"notifications/initialized", "notifications/progress"},
        p \in ParamValues \cup {Absent}}
ResponseItems ==
    {Envelope("Response", JSONRPC_VERSION, i, "", Absent, r, Absent, <<>>) :
        i \in RequestIdValues, r \in ResultValues}
ErrorItems ==
    {Envelope("Error", JSONRPC_VERSION, i, "", Absent, Absent, e, <<>>) :
        i \in RequestIdValues, e \in ErrorInfos}

SeqsUpTo(S, n) == UNION {[1..k -> S] : k \in 0..n}

\* The valid envelopes, batches up to MaxBatch items
Envelopes ==
    RequestItems \cup NotificationItems \cup ResponseItems \cup ErrorItems
    \cup {Envelope("BatchRequest", "", Absent, "", Absent, Absent, Absent, items) :
            items \in SeqsUpTo(RequestItems \cup NotificationItems, MaxBatch)}
    \cup {Envelope("BatchResponse", "", Absent, "", Absent, Absent, Absent, items) :
            items \in SeqsUpTo(ResponseItems \cup ErrorItems, MaxBatch)}

\* A JSON object on the wire, by the keys the envelopes know
WireObject(jsonrpc, id, method, params, res, error) ==
    [jsonrpc |-> jsonrpc, id |-> id, method |-> method, params |-> params,
     result |-> res, error |-> error]
EmptyObject == WireObject(Absent, Absent, Absent, Absent, Absent, Absent)

\* A JSON text: an object, or an array of objects
Wire(array, obj, items) == [array |-> array, obj |-> obj, items |-> items]
NoWire == Wire(FALSE, EmptyObject, <<>>)

\* derive(Serialize) of the four structs: every field by its name, params
\* skipped when None
serialize_item(e) ==
    CASE e.variant = "Request"
            -> WireObject(JsonString(e.jsonrpc), e.id, JsonString(e.method),
                          e.params, Absent, Absent)
      [] e.variant = "Notification"
            -> WireObject(JsonString(e.jsonrpc), Absent, JsonString(e.method),
                          e.params, Absent, Absent)
      [] e.variant = "Response"
            -> WireObject(JsonString(e.jsonrpc), e.id, Absent, Absent,
                          e.result, Absent)
      [] e.variant = "Error"
            -> WireObject(JsonString(e.jsonrpc), e.id, Absent, Absent, Absent,
                          e.error)

\* serde_json::to_string of a JSONRPCMessage (untagged: the content of the
\* variant, a Vec as an array)
to_string(e) ==
    IF e.variant \in {"BatchRequest", "BatchResponse"}
    THEN Wire(TRUE, EmptyObject,
              [k \in 1..Len(e.items) |-> serialize_item(e.items[k])])
    ELSE Wire(FALSE, serialize_item(e), <<>>)

\* Deserialize of RequestId (a string or an integer) and of
\* Option<serde_json::Value> (a missing key and null both give None)
IsRequestId(v) == v.t \in {"string", "number"}
AsOption(v) == IF v.t = "null" THEN Absent ELSE v

\* derive(Deserialize) of each struct: the keys it needs, with the types it
\* needs them in; other keys are ignored
IsRequest(o) ==
    o.jsonrpc.t = "string" /\ IsRequestId(o.id) /\ o.method.t = "string"
IsNotification(o) == o.jsonrpc.t = "string" /\ o.method.t = "string"
IsResponse(o) ==
    o.jsonrpc.t = "string" /\ IsRequestId(o.id) /\ o.result.t # "absent"
IsError(o) ==
    o.jsonrpc.t = "string" /\ IsRequestId(o.id) /\ o.error \in ErrorInfos

\* What the decoder returns: Ok(envelope) or Err
Decoded(e) == [ok |-> TRUE, env |-> e, wire |-> NoWire]
Rejected == [ok |-> FALSE, env |-> NoEnvelope, wire |-> NoWire]
Encoded(w) == [ok |-> TRUE, env |-> NoEnvelope, wire |-> w]

\* An untagged enum takes the first variant that deserializes, in the order
\* of declaration
deserialize_item(o, variants) ==
    IF "Request" \in variants /\ IsRequest(o)
    THEN Envelope("Request", o.jsonrpc.v, o.id, o.method.v,
                  AsOption(o.params), Absent, Absent, <<>>)
    ELSE IF "Notification" \in variants /\ IsNotification(o)
    THEN Envelope("Notification", o.jsonrpc.v, Absent, o.method.v,
                  AsOption(o.params), Absent, Absent, <<>>)
    ELSE IF "Response" \in variants /\ IsResponse(o)
    THEN Envelope("Response", o.jsonrpc.v, o.id, "", Absent, o.result,
                  Absent, <<>>)
    ELSE IF "Error" \in variants /\ IsError(o)
    THEN Envelope("Error", o.jsonrpc.v, o.id, "", Absent, Absent, o.error,
                  <<>>)
    ELSE NoEnvelope

BatchRequestVariants == {"Request", "Notification"}
BatchResponseVariants == {"Response", "Error"}
MessageVariants == BatchRequestVariants \cup BatchResponseVariants

deserialize_items(items, variants) ==
    [k \in 1..Len(items) |-> deserialize_item(items[k], variants)]

\* serde_json::from_str::<JSONRPCMessage>
from_str(w) ==
    IF ~w.array
    THEN IF deserialize_item(w.obj, MessageVariants) = NoEnvelope
         THEN Rejected
         ELSE Decoded(deserialize_item(w.obj, MessageVariants))
    ELSE IF \A k \in 1..Len(w.items) :
                deserialize_item(w.items[k], BatchRequestVariants) # NoEnvelope
    THEN Decoded(Envelope("BatchRequest", "", Absent, "", Absent, Absent,
                          Absent,
                          deserialize_items(w.items, BatchRequestVariants)))
    ELSE IF \A k \in 1..Len(w.items) :
                deserialize_item(w.items[k], BatchResponseVariants) # NoEnvelope
    THEN Decoded(Envelope("BatchResponse", "", Absent, "", Absent, Absent,
                          Absent,
                          deserialize_items(w.items, BatchResponseVariants)))
    ELSE Rejected

\* The JSON objects a peer can send: every choice of keys, with a jsonrpc
\* that is "2.0", another string or a number, and an id that may be null
WireObjects ==
    {WireObject(j, i, m, p, r, e) :
        j \in {Absent, JsonString(JSONRPC_VERSION), JsonString("1.0"),
               JsonNumber("2")},
        i \in RequestIdValues \cup {Absent, JsonNull},
        m \in {Absent, JsonString("ping")},
        p \in ParamValues \cup {Absent},
        r \in ResultValues \cup {Absent},
        e \in {Absent, JsonObject("error")}}

\* What the codec is called on
CodecInput(type, e, w) == [type |-> type, env |-> e, wire |-> w]
CodecInputs ==
    {CodecInput("envelope", e, NoWire) : e \in Envelopes}
    \cup {CodecInput("wire", NoEnvelope, Wire(FALSE, o, <<>>)) : o \in WireObjects}

\* serde_json::to_string(&message), as the transports call it in send
Serialize ==
    /\ arg.type = "envelope"
    /\ ret = <<>>
    /\ ret' = <<Encoded(to_string(arg.env))>>
    /\ UNCHANGED <<arg, transport, client_vars, server_vars>>

\* serde_json::from_str(&text) on the text just serialized
DeserializeSerialized ==
    /\ arg.type = "envelope"
    /\ Len(ret) = 1
    /\ ret' = Append(ret, from_str(ret[1].wire))
    /\ UNCHANGED <<arg, transport, client_vars, server_vars>>

\* serde_json::from_str(&text) on a text frame of the peer
DeserializeFrame ==
    /\ arg.type = "wire"
    /\ ret = <<>>
    /\ ret' = <<from_str(arg.wire)>>
    /\ UNCHANGED <<arg, transport, client_vars, server_vars>>

\* A client and a server at rest, while a library function is under study
EnginesAtRest ==
    /\ ClientNew
    /\ ServerNew
    /\ options = {"logging"}
    /\ default_timeout_ms = DefaultTimeoutMs
    /\ client_options = DefaultClientOptions

CodecInit ==
    /\ EnginesAtRest
    /\ transport = NoTransport
    /\ arg \in CodecInputs
    /\ ret = <<>>

CodecNext == Serialize \/ DeserializeSerialized \/ DeserializeFrame

CodecSpec == CodecInit /\ [][CodecNext]_vars

\* C24: decoding the encoding of a valid envelope gives back that envelope,
\* with the same variant and fields (empty batches and absent params
\* included).
C24_DecodeEncodeRoundTrip ==
    (arg.type = "envelope" /\ Len(ret) = 2) => ret[2] = Decoded(arg.env)

\* The variant the keys of an object stand for
VariantByKeys(o) ==
    IF o.method # Absent /\ o.id # Absent THEN "Request"
    ELSE IF o.method # Absent THEN "Notification"
    ELSE IF o.result # Absent THEN "Response"
    ELSE IF o.error # Absent THEN "Error"
    ELSE "none"

\* C25: a JSON object is decoded to the variant its keys stand for (method
\* and id: Request; method without id: Notification; result: Response;
\* error: Error; anything else is rejected), and an object whose jsonrpc is
\* not the string "2.0" is rejected.
C25_ClassifiedByKeys ==
    (arg.type = "wire" /\ Len(ret) = 1)
    => LET o == arg.wire.obj
       IN IF o.jsonrpc # JsonString(JSONRPC_VERSION) \/ VariantByKeys(o) = "none"
          THEN ~ret[1].ok
          ELSE ret[1].ok /\ ret[1].env.variant = VariantByKeys(o)

\* ------------------------------------------------------ tools/call result
JsonBool(b) == [t |-> "bool", v |-> IF b THEN "true" ELSE "false"]
JsonArray(s) == [t |-> "array", v |-> s]

\* The result object of a response to tools/call, by the keys a server may
\* write: content, isError (the name in the protocol), is_error, _meta
ToolResultJson(content, isError, is_error, meta) ==
    [content |-> content, isError |-> isError, is_error |-> is_error,
     meta |-> meta]
ToolResultJsons ==
    {ToolResultJson(c, e1, e2, m) :
        c \in {Absent, JsonArray("[]"), JsonArray("[text]"), JsonString("text")},
        e1 \in {Absent, JsonBool(TRUE), JsonBool(FALSE)},
        e2 \in {Absent, JsonBool(TRUE), JsonBool(FALSE), JsonString("yes")},
        m \in {Absent, JsonObject("{}")}}

\* What Client::call_tool returns
ToolOk(content, is_error) ==
    [ok |-> TRUE, error |-> "", content |-> content, is_error |-> is_error]
ToolErr(error) ==
    [ok |-> FALSE, error |-> error, content |-> "", is_error |-> ""]

\* serde_json::from_value::<CallToolResult>: content is a Vec and must be
\* there; is_error is read from the key "is_error" (the struct renames only
\* _meta), an Option<bool>; keys the struct does not have are ignored
from_value_CallToolResult(r) ==
    IF /\ r.content.t = "array"
       /\ r.is_error.t \in {"absent", "null", "bool"}
    THEN ToolOk(r.content.v,
                IF r.is_error.t = "bool"
                THEN "Some(" \o r.is_error.v \o ")"
                ELSE "None")
    ELSE ToolErr("ParseError")

\* What send_request hands to call_tool, with the result object of a
\* response
ToolAnswers ==
    {[type |-> "tool_answer", kind |-> k, result |-> r] :
        k \in {"Response", "Error", "Notification"}, r \in ToolResultJsons}

\* Client::call_tool, lines 848-860: the match on the answer
CallToolReturns ==
    /\ arg.type = "tool_answer"
    /\ ret = <<>>
    /\ ret' = <<CASE arg.kind = "Response" -> from_value_CallToolResult(arg.result)
                  [] arg.kind = "Error" -> ToolErr("ServerError")
                  [] OTHER -> ToolErr("ProtocolError")>>
    /\ UNCHANGED <<arg, transport, client_vars, server_vars>>

ToolCallInit ==
    /\ EnginesAtRest
    /\ transport = NoTransport
    /\ arg \in ToolAnswers
    /\ ret = <<>>

ToolCallSpec == ToolCallInit /\ [][CallToolReturns]_vars

\* C26: for a response to tools/call whose result is
\* {"content":[...],"isError":true}, call_tool returns Ok with a result
\* whose is_error is Some(true).
C26_ToolErrorIsKept ==
    (/\ arg.type = "tool_answer"
     /\ arg.kind = "Response"
     /\ arg.result.content.t = "array"
     /\ arg.result.isError = JsonBool(TRUE)
     /\ arg.result.is_error = Absent
     /\ ret # <<>>)
    => ret[1].ok /\ ret[1].is_error = "Some(true)"

\* ------------------------------------------------------------ JSON paths
\* Characters in a path
MaxPathLen == 4
PathChars == {"a", "0", "."}
Digits == {"0", "1"}

\* A serde_json::Value as the set of its nodes: the keys that lead to the
\* node (an array index as its decimal digits) and what the node is. Keys
\* and paths are sequences of characters.
Node(path, kind) == [path |-> path, kind |-> kind]
Root == <<>>
Scalar(kind) == {Node(Root, kind)}

\* usize::to_string of an index of the arrays of the model
IndexKey(i) == IF i = 0 THEN <<"0">> ELSE <<"1">>

\* The values json_path_set and json_path_get are called on:
\*   {}, {"a":"s"}, {"a":{"a":"s"},"0":"n"}, {"a":["s","n"]},
\*   {"a":[{"a":"s"}]}, ["s"], "s", {"a":null}, {"":"s","aa":{}}
JsonDocs ==
    { {Node(Root, "object")},
      {Node(Root, "object"), Node(<< <<"a">> >>, "s")},
      {Node(Root, "object"), Node(<< <<"a">> >>, "object"),
       Node(<< <<"a">>, <<"a">> >>, "s"), Node(<< <<"0">> >>, "n")},
      {Node(Root, "object"), Node(<< <<"a">> >>, "array"),
       Node(<< <<"a">>, IndexKey(0) >>, "s"), Node(<< <<"a">>, IndexKey(1) >>, "n")},
      {Node(Root, "object"), Node(<< <<"a">> >>, "array"),
       Node(<< <<"a">>, IndexKey(0) >>, "object"),
       Node(<< <<"a">>, IndexKey(0), <<"a">> >>, "s")},
      {Node(Root, "array"), Node(<< IndexKey(0) >>, "s")},
      Scalar("s"),
      {Node(Root, "object"), Node(<< <<"a">> >>, "null")},
      {Node(Root, "object"), Node(<< <<>> >>, "s"), Node(<< <<"a", "a">> >>, "object")} }

\* The values written: "v" and {"a":"v"}
JsonNewValues ==
    { Scalar("v"), {Node(Root, "object"), Node(<< <<"a">> >>, "v")} }

\* The paths: every string of up to MaxPathLen characters
PathStrings == UNION {[1..k -> PathChars] : k \in 0..MaxPathLen}

\* s starts with t
StartsWith(s, t) == Len(t) <= Len(s) /\ SubSeq(s, 1, Len(t)) = t

\* str::split('.'): the parts between the dots, one part for a string
\* without dot (the empty string included)
RECURSIVE split(_)
split(str) ==
    IF \A k \in 1..Len(str) : str[k] # "."
    THEN <<str>>
    ELSE LET dot == CHOOSE k \in 1..Len(str) :
                        str[k] = "." /\ \A h \in 1..(k - 1) : str[h] # "."
         IN <<SubSeq(str, 1, dot - 1)>> \o split(SubSeq(str, dot + 1, Len(str)))

\* key.parse::<usize>(): decimal digits, leading zeros allowed
IsUsize(key) == key # <<>> /\ \A k \in 1..Len(key) : key[k] \in Digits
RECURSIVE parse_usize(_)
parse_usize(key) ==
    IF key = <<>> THEN 0
    ELSE 10 * parse_usize(SubSeq(key, 1, Len(key) - 1))
         + (IF key[Len(key)] = "1" THEN 1 ELSE 0)

\* What a node of the value is, its children, and the value under it
KindAt(doc, at) ==
    IF \E n \in doc : n.path = at
    THEN (CHOOSE n \in doc : n.path = at).kind
    ELSE "missing"
Children(doc, at) ==
    {n \in doc : Len(n.path) = Len(at) + 1 /\ StartsWith(n.path, at)}
Subtree(doc, at) ==
    {Node(SubSeq(n.path, Len(at) + 1, Len(n.path)), n.kind) :
        n \in {x \in doc : StartsWith(x.path, at)}}
Graft(doc, at, value) ==
    {n \in doc : ~StartsWith(n.path, at)}
        \cup {Node(at \o n.path, n.kind) : n \in value}

\* The child of the node at a path that a key selects: map.get(key) of an
\* object, array.get(index) of an array; NoChild where there is none
NoChild == << <<"?">> >>
Select(doc, at, key) ==
    CASE KindAt(doc, at) = "object"
            -> IF KindAt(doc, Append(at, key)) # "missing"
               THEN Append(at, key) ELSE NoChild
      [] KindAt(doc, at) = "array"
            -> IF /\ IsUsize(key)
                  /\ parse_usize(key) < Cardinality(Children(doc, at))
               THEN Append(at, IndexKey(parse_usize(key))) ELSE NoChild
      [] OTHER -> NoChild

\* Option<&Value>
None == {}
Some(value) == value

\* json_path_get: the loop over path.split('.')
RECURSIVE get_from(_, _, _, _)
get_from(doc, at, parts, i) ==
    IF i > Len(parts) THEN Some(Subtree(doc, at))
    ELSE IF Select(doc, at, parts[i]) = NoChild THEN None
    ELSE get_from(doc, Select(doc, at, parts[i]), parts, i + 1)

json_path_get(doc, path) == get_from(doc, Root, split(path), 1)

\* Result<(), Error> of json_path_set, with the value as it is left, and
\* the Option json_path_get returns
SetOk(doc) == [ok |-> TRUE, doc |-> doc]
SetErr(doc) == [ok |-> FALSE, doc |-> doc]
Got(option) == [ok |-> option # None, doc |-> option]

\* json_path_set with map.insert at the last key replaced by a map that
\* holds the new key alone
RECURSIVE set_from_ReplacesMap(_, _, _, _, _)
set_from_ReplacesMap(doc, at, parts, i, value) ==
    LET key == parts[i]
    IN IF i = Len(parts)
       THEN CASE KindAt(doc, at) = "object"
                    -> SetOk(Graft(Graft(doc, at, Scalar("object")),
                                   Append(at, key), value))
              [] KindAt(doc, at) = "array"
                    -> IF Select(doc, at, key) # NoChild
                       THEN SetOk(Graft(doc, Select(doc, at, key), value))
                       ELSE SetErr(doc)
              [] OTHER -> SetErr(doc)
       ELSE CASE KindAt(doc, at) = "object"
                    -> IF Select(doc, at, key) = NoChild
                       THEN set_from_ReplacesMap(
                                doc \cup {Node(Append(at, key),
                                               IF IsUsize(parts[i + 1])
                                               THEN "array" ELSE "object")},
                                Append(at, key), parts, i + 1, value)
                       ELSE set_from_ReplacesMap(doc, Append(at, key), parts,
                                                 i + 1, value)
              [] KindAt(doc, at) = "array"
                    -> IF Select(doc, at, key) # NoChild
                       THEN set_from_ReplacesMap(doc, Select(doc, at, key),
                                                 parts, i + 1, value)
                       ELSE SetErr(doc)
              [] OTHER -> SetErr(doc)

\* json_path_set: the loop over the parts, from part i at the node reached
RECURSIVE set_from(_, _, _, _, _)
set_from(doc, at, parts, i, value) ==
    LET key == parts[i]
    IN IF i = Len(parts)
       THEN CASE KindAt(doc, at) = "object"
                    -> SetOk(Graft(doc, Append(at, key), value))
              [] KindAt(doc, at) = "array"
                    -> IF Select(doc, at, key) # NoChild
                       THEN SetOk(Graft(doc, Select(doc, at, key), value))
                       ELSE SetErr(doc)
              [] OTHER -> SetErr(doc)
       ELSE CASE KindAt(doc, at) = "object"
                    -> IF Select(doc, at, key) = NoChild
                       THEN set_from(doc \cup {Node(Append(at, key),
                                                    IF IsUsize(parts[i + 1])
                                                    THEN "array" ELSE "object")},
                                     Append(at, key), parts, i + 1, value)
                       ELSE set_from(doc, Append(at, key), parts, i + 1, value)
              [] KindAt(doc, at) = "array"
                    -> IF Select(doc, at, key) # NoChild
                       THEN set_from(doc, Select(doc, at, key), parts, i + 1,
                                     value)
                       ELSE SetErr(doc)
              [] OTHER -> SetErr(doc)

json_path_set(doc, path, value) == set_from(doc, Root, split(path), 1, value)

\* What the two functions are called on
PathInputs ==
    {[type |-> "path_set", doc |-> d, path |-> q, value |-> v] :
        d \in JsonDocs, q \in PathStrings, v \in JsonNewValues}

\* json_path_set(&mut json, path, value)
PathSet ==
    /\ arg.type = "path_set"
    /\ ret = <<>>
    /\ ret' = <<json_path_set(arg.doc, arg.path, arg.value)>>
    /\ UNCHANGED <<arg, transport, client_vars, server_vars>>

\* json_path_get(&json, path) on the value json_path_set has left
PathGet ==
    /\ arg.type = "path_set"
    /\ Len(ret) = 1
    /\ ret' = Append(ret, Got(json_path_get(ret[1].doc, arg.path)))
    /\ UNCHANGED <<arg, transport, client_vars, server_vars>>

PathInit ==
    /\ EnginesAtRest
    /\ transport = NoTransport
    /\ arg \in PathInputs
    /\ ret = <<>>

PathNext == PathSet \/ PathGet

PathSpec == PathInit /\ [][PathNext]_vars

\* Two paths of which neither leads through the other
Apart(p, q) == ~StartsWith(p, q) /\ ~StartsWith(q, p)

\* json_path_set returned Ok and json_path_get was called on the same path
SetAndGot == arg.type = "path_set" /\ Len(ret) = 2 /\ ret[1].ok

\* C30 as stated: after json_path_set(j, p, v) returned Ok,
\* json_path_get(j, p) is v, every part of p before the last leads to a
\* value, and the value at every path (as a string of parts) that is
\* neither a prefix nor an extension of p is what it was.
C30_SetThenGet ==
    SetAndGot
    => /\ ret[2] = Got(Some(arg.value))
       /\ \A k \in 1..(Len(split(arg.path)) - 1) :
            get_from(ret[1].doc, Root, SubSeq(split(arg.path), 1, k), 1) # None
       /\ \A q \in PathStrings :
            Apart(split(q), split(arg.path))
            => json_path_get(ret[1].doc, q) = json_path_get(arg.doc, q)

\* The place in the value a path leads to: the keys of objects as they
\* are, the indices of arrays as numbers
RECURSIVE locate(_, _, _, _)
locate(doc, at, parts, i) ==
    IF i > Len(parts) THEN at
    ELSE IF KindAt(doc, at) = "array" /\ IsUsize(parts[i])
    THEN locate(doc, Append(at, IndexKey(parse_usize(parts[i]))), parts, i + 1)
    ELSE locate(doc, Append(at, parts[i]), parts, i + 1)
Place(doc, path) == locate(doc, Root, split(path), 1)

\* C30 amended: as above, with paths compared by the place they lead to in
\* the value after the call (an index of an array may be spelt with
\* leading zeros).
C30_SetThenGetByPlace ==
    SetAndGot
    => /\ ret[2] = Got(Some(arg.value))
       /\ \A k \in 1..(Len(split(arg.path)) - 1) :
            get_from(ret[1].doc, Root, SubSeq(split(arg.path), 1, k), 1) # None
       /\ \A q \in PathStrings :
            Apart(Place(ret[1].doc, q), Place(ret[1].doc, arg.path))
            => json_path_get(ret[1].doc, q) = json_path_get(arg.doc, q)

\* An Ok call that created a missing object on the way and left a value
\* next to the path alone
C30_Witness ==
    /\ SetAndGot
    /\ \E k \in 1..(Len(split(arg.path)) - 1) :
            get_from(arg.doc, Root, SubSeq(split(arg.path), 1, k), 1) = None
    /\ \E q \in PathStrings :
        /\ Apart(Place(ret[1].doc, q), Place(ret[1].doc, arg.path))
        /\ json_path_get(arg.doc, q) # None

\* ------------------------------------------------------------ transports
MaxTransportCalls == 4   \* calls of the Transport trait in one run
MaxFrames == 2           \* frames the peer sends to one transport

\* WebSocketTransport::new / HttpTransport::new. The fields:
\*   connected, sender, receiver: the fields of the struct (sender and
\*     receiver: the Option is Some);
\*   queue: what the incoming channel holds; task: the incoming task of
\*     handle_websocket is alive and holds the sender of that channel;
\*   stale: stores of false into the shared flag that tasks of an earlier
\*     connection are still to make;
\*   posted: frames handed to the peer;
\*   open: a connect has succeeded, and no disconnect or close came after;
\*   closed: disconnect has closed a connection and returned, and no
\*     connect succeeded after;
\*   calls, frames: calls made and frames received so far.
NewTransport(kind) ==
    [kind |-> kind, connected |-> FALSE, sender |-> FALSE, receiver |-> FALSE,
     queue |-> <<>>, task |-> FALSE, stale |-> 0, posted |-> 0,
     open |-> FALSE, closed |-> FALSE, calls |-> 0, frames |-> 0]
TransportKinds == {"websocket", "http"}

\* What a call of the trait returned
Returned(call, res) == [op |-> call, result |-> res]
NextCall == [transport EXCEPT !.calls = @ + 1]

\* The capacity of the incoming channel (mpsc::channel(100)), and what the
\* incoming task puts into it
IncomingCapacity == 100
IncomingItems == {"Ok(message)", "Err(ParseError)"}

\* Transport::connect; reachable says whether connect_async (the HEAD
\* request) succeeds
transport_connect(reachable) ==
    /\ arg.type = "transport"
    /\ transport.calls < MaxTransportCalls
    /\ IF transport.connected
       THEN /\ transport' = NextCall
            /\ ret' = <<Returned("connect", "Ok")>>
       ELSE IF ~reachable
       THEN /\ transport' = NextCall
            /\ ret' = <<Returned("connect", "TransportError")>>
       ELSE /\ transport' = [NextCall EXCEPT
                                !.connected = TRUE,
                                !.sender = (transport.kind = "websocket"),
                                !.receiver = TRUE,
                                !.queue = <<>>,
                                !.task = (transport.kind = "websocket"),
                                !.open = TRUE,
                                !.closed = FALSE]
            /\ ret' = <<Returned("connect", "Ok")>>
    /\ UNCHANGED <<arg, client_vars, server_vars>>

\* Transport::disconnect
transport_disconnect ==
    /\ arg.type = "transport"
    /\ transport.calls < MaxTransportCalls
    /\ transport' =
         IF ~transport.connected
         THEN [NextCall EXCEPT !.open = FALSE]
         ELSE [NextCall EXCEPT
                  !.connected = FALSE, !.sender = FALSE, !.receiver = FALSE,
                  !.queue = <<>>, !.task = FALSE,
                  !.stale = IF transport.task THEN @ + 1 ELSE @,
                  !.open = FALSE, !.closed = TRUE]
    /\ ret' = <<Returned("disconnect", "Ok")>>
    /\ UNCHANGED <<arg, client_vars, server_vars>>

\* What the POST of HttpTransport::send can come to
PostOutcomes == {"Ok", "TransportError", "JsonError"}

\* Transport::send without the test of the connected flag
transport_send_Unchecked(post) ==
    /\ arg.type = "transport"
    /\ transport.calls < MaxTransportCalls
    /\ IF transport.kind = "websocket"
       THEN IF ~transport.sender
            THEN /\ transport' = NextCall
                 /\ ret' = <<Returned("send", "ConnectionClosed")>>
            ELSE /\ post = "Ok"
                 /\ transport' = [NextCall EXCEPT !.posted = @ + 1]
                 /\ ret' = <<Returned("send", "Ok")>>
       ELSE /\ transport' = [NextCall EXCEPT !.posted = @ + 1]
            /\ ret' = <<Returned("send", post)>>
    /\ UNCHANGED <<arg, client_vars, server_vars>>

\* Transport::send. WebSocket: the text goes to the outgoing channel.
\* HTTP: the POST is made; its reply is parsed and sent into a channel
\* made on the spot, whose receiver is dropped at once, so nothing reaches
\* the receiver that receive() reads.
transport_send(post) ==
    /\ arg.type = "transport"
    /\ transport.calls < MaxTransportCalls
    /\ IF ~transport.connected
       THEN /\ post = "Ok"
            /\ transport' = NextCall
            /\ ret' = <<Returned("send", "ConnectionClosed")>>
       ELSE IF transport.kind = "websocket"
       THEN IF ~transport.sender
            THEN /\ post = "Ok"
                 /\ transport' = NextCall
                 /\ ret' = <<Returned("send", "ConnectionClosed")>>
            ELSE /\ post = "Ok"
                 /\ transport' = [NextCall EXCEPT !.posted = @ + 1]
                 /\ ret' = <<Returned("send", "Ok")>>
       ELSE /\ transport' = [NextCall EXCEPT !.posted = @ + 1]
            /\ ret' = <<Returned("send", post)>>
    /\ UNCHANGED <<arg, client_vars, server_vars>>

\* Transport::receive: an error when the flag is false, None without a
\* receiver, else recv() on the channel: the next item, None when the
\* channel is empty and has no sender, and no return while it is empty and
\* the incoming task lives.
transport_receive ==
    /\ arg.type = "transport"
    /\ transport.calls < MaxTransportCalls
    /\ IF ~transport.connected
       THEN /\ transport' = NextCall
            /\ ret' = <<Returned("receive", "Some(Err(ConnectionClosed))")>>
       ELSE IF ~transport.receiver
       THEN /\ transport' = NextCall
            /\ ret' = <<Returned("receive", "None")>>
       ELSE IF transport.queue # <<>>
       THEN /\ transport' = [NextCall EXCEPT !.queue = Tail(@)]
            /\ ret' = <<Returned("receive", "Some(" \o Head(transport.queue) \o ")")>>
       ELSE /\ ~transport.task
            /\ transport' = NextCall
            /\ ret' = <<Returned("receive", "None")>>
    /\ UNCHANGED <<arg, client_vars, server_vars>>

\* Transport::is_connected
transport_is_connected ==
    /\ arg.type = "transport"
    /\ transport.calls < MaxTransportCalls
    /\ transport' = NextCall
    /\ ret' = <<Returned("is_connected",
                         IF transport.connected THEN "true" ELSE "false")>>
    /\ UNCHANGED <<arg, client_vars, server_vars>>

\* handle_websocket, incoming task: a text frame of the peer is parsed and
\* queued
IncomingFrame(item) ==
    /\ arg.type = "transport"
    /\ transport.task
    /\ transport.frames < MaxFrames
    /\ Len(transport.queue) < IncomingCapacity
    /\ transport' = [transport EXCEPT !.queue = Append(@, item),
                                      !.frames = @ + 1]
    /\ UNCHANGED <<arg, ret, client_vars, server_vars>>

\* handle_websocket, incoming task: the peer closes or the stream fails;
\* the task ends, drops its sender and clears the flag; handle_websocket
\* clears the flag once more after its select
IncomingClose ==
    /\ arg.type = "transport"
    /\ transport.task
    /\ transport' = [transport EXCEPT !.task = FALSE, !.connected = FALSE,
                                      !.stale = @ + 1, !.open = FALSE]
    /\ UNCHANGED <<arg, ret, client_vars, server_vars>>

\* handle_websocket of an earlier connection comes to its
\* connected.store(false); the flag is the one the transport shares with
\* every connection it makes
StaleTaskEnds ==
    /\ arg.type = "transport"
    /\ transport.stale > 0
    /\ transport' = [transport EXCEPT !.stale = @ - 1, !.connected = FALSE]
    /\ UNCHANGED <<arg, ret, client_vars, server_vars>>

TransportInit ==
    /\ EnginesAtRest
    /\ arg = [type |-> "transport"]
    /\ ret = <<>>
    /\ transport \in {NewTransport(kind) : kind \in TransportKinds}

TransportNext ==
    \/ \E reachable \in BOOLEAN : transport_connect(reachable)
    \/ transport_disconnect
    \/ \E post \in PostOutcomes : transport_send(post)
    \/ transport_receive
    \/ transport_is_connected
    \/ \E item \in IncomingItems : IncomingFrame(item)
    \/ IncomingClose
    \/ StaleTaskEnds

TransportSpec == TransportInit /\ [][TransportNext]_vars

\* C27: once disconnect has closed a connection and returned (and until a
\* connect succeeds),
\* is_connected is false, receive returns None, neither a message nor an
\* error, and send fails with ConnectionClosed and hands nothing to the
\* peer.
C27_AfterDisconnect ==
    /\ [](arg.type = "transport" /\ transport.closed => ~transport.connected)
    /\ [][(arg.type = "transport" /\ transport.closed)
          => /\ transport_receive => ret' = <<Returned("receive", "None")>>
             /\ (\E post \in PostOutcomes : transport_send(post))
                => /\ ret' = <<Returned("send", "ConnectionClosed")>>
                   /\ transport'.posted = transport.posted]_vars

\* C28: over HttpTransport, the reply in the body of the POST of a send
\* that returned Ok is put where receive finds it.
C28_HttpReplySurfaces ==
    [][(/\ arg.type = "transport"
        /\ transport.kind = "http"
        /\ transport_send("Ok")
        /\ ret' = <<Returned("send", "Ok")>>)
       => transport'.queue = Append(transport.queue, "Ok(message)")]_vars

\* C29: the connected flag is true only while the transport is open (a
\* connect has succeeded and no disconnect or close came after; a new
\* transport is not open), and a send while the flag is false fails with
\* ConnectionClosed and hands nothing to the peer.
C29_ConnectedOnlyWhileOpen ==
    /\ [](arg.type = "transport" /\ transport.connected => transport.open)
    /\ [][(/\ arg.type = "transport"
           /\ ~transport.connected
           /\ \E post \in PostOutcomes : transport_send(post))
          => /\ ret' = <<Returned("send", "ConnectionClosed")>>
             /\ transport'.posted = transport.posted]_vars

\* A transport that was connected and disconnected has refused a send
C29_Witness ==
    /\ arg.type = "transport"
    /\ transport.closed
    /\ transport.posted > 0
    /\ ~transport.connected
    /\ ret = <<Returned("send", "ConnectionClosed")>>

\* ------------------------------------------------- answers of the peer
\* What the peer answers with: a response or an error for an id of this
\* session or for an id nobody issued, each possibly more than once
ReplyFrames == UNION {{Response(i), ErrorMsg(i)} : i \in Ids \cup {UnknownId}}

\* One session whose caller pings the peer, with a peer that answers late,
\* twice, or for ids of its own
ReplyNext ==
    \/ OpenSession
    \/ \E c \in Callers : Initialize(c)
    \/ \E c \in Callers : CallUngated(c, "ping")
    \/ \E c \in Callers : SendRequest(c)
    \/ \E c \in Callers : AwaitResponse(c)
    \/ \E c \in Callers : Timeout(c)
    \/ \E c \in Callers : StoreCapabilities(c, UpdatingPeerJson)
    \/ \E c \in Callers : SetInitialized(c)
    \/ \E c \in Callers : NotifyInitialized(c)
    \/ \E c \in Callers : EmitConnected(c)
    \/ HandleMessage
    \/ \E c \in Callers : Deliver(c)
    \/ \E m \in ReplyFrames : PeerNotify(m, MaxNotifications)
    \/ TransportClose
    \/ ReceiveLoopExit

ReplySpec == Init /\ [][ReplyNext]_vars

\* The receive loop takes a response or an error whose id has no slot
TakesUnmatched ==
    /\ HandleMessage
    /\ Head(inbox).kind \in {"Response", "Error"}
    /\ Head(inbox).id \notin DOMAIN pending_requests

\* C31: a response or an error whose id has no slot in the correlation
\* table (late after a timeout, a duplicate, or never issued) is ignored:
\* no waiter's channel gets anything, no caller gets an outcome, the table
\* is unchanged, and the loop and the connection state stay as they were.
C31_UnmatchedResponseIgnored ==
    [][TakesUnmatched
       => /\ chan' = chan
          /\ result' = result
          /\ pc' = pc
          /\ pending_requests' = pending_requests
          /\ loops' = loops
          /\ connection_state' = connection_state
          /\ connected' = connected]_vars

\* Two frames were taken in a session with one call: the response to
\* initialize, and one more response or error, which nobody waited for;
\* the handshake went through
C31_Witness ==
    /\ srv_msgs = 2
    /\ inbox = <<>>
    /\ calls = 1
    /\ loops = 1
    /\ connection_state = "Initialized"
    /\ pending_requests = EmptyTable
    /\ \E c \in Callers : result[c] = "Ok"

\* Sessions whose peer answers with notifications/cancelled only, under the
\* scheduling of FairSpec
CancelNext ==
    \/ OpenSession
    \/ \E c \in Callers : Initialize(c)
    \/ \E c \in Callers : CallUngated(c, "ping")
    \/ \E c \in Callers : SendRequest(c)
    \/ \E c \in Callers : AwaitResponse(c)
    \/ \E c \in Callers : Timeout(c)
    \/ HandleMessage
    \/ \E i \in Ids : PeerSend(Notification("notifications/cancelled", i))
    \/ TransportClose
    \/ ReceiveLoopExit

CancelSpec ==
    /\ Init
    /\ [][CancelNext]_vars
    /\ \A c \in Callers :
        /\ WF_vars(SendRequest(c))
        /\ WF_vars(AwaitResponse(c))
        /\ WF_vars(Timeout(c))
        /\ WF_vars(Initialize(c))
    /\ WF_vars(HandleMessage)
    /\ WF_vars(ReceiveLoopExit)
    /\ WF_vars(TransportClose)

\* The receive loop takes notifications/cancelled naming id i
TakesCancelled(i) ==
    /\ HandleMessage
    /\ Head(inbox) = Notification("notifications/cancelled", i)

\* A caller whose oneshot sender was dropped while it is in send_request
SenderDropped(c) == chan[c] = "closed" /\ pc[c] \in {"sending", "waiting"}

SubscriptionRequests ==
    {m \in ClientMessages :
        m.method \in {"resources/subscribe", "resources/unsubscribe"}}

\* A server that is started and gets connections, whose clients send
\* subscription requests
SubscriptionNext ==
    \/ Start
    \/ \E cid \in ClientIds : AddConnection(cid)
    \/ \E cid \in ClientIds, m \in SubscriptionRequests : ServerHandleMessage(cid, m)

SubscriptionSpec == ServerInit /\ [][SubscriptionNext]_vars

\* The URIs in a connection's subscribed_resources
Uris(conn) ==
    {conn.subscribed_resources[k] : k \in 1..Len(conn.subscribed_resources)}

\* The server accepts request m
Accepted(m) == reply'.kind = "Response" /\ reply'.id = m.id

\* C32: an accepted resources/subscribe puts its URI in the connection's
\* subscription set, an accepted resources/unsubscribe takes it out, either
\* leaves the other URIs as they were, and every other message leaves the
\* set alone (so a URI is in the set exactly when the last accepted
\* operation on it was a subscribe); the set never holds a URI twice.
C32_SubscriptionSetFollowsRequests ==
    /\ [](\A cid \in DOMAIN connections :
            Cardinality(Uris(connections[cid]))
                = Len(connections[cid].subscribed_resources))
    /\ [][\A cid \in ClientIds, m \in SubscriptionRequests :
            (ServerHandleMessage(cid, m) /\ cid \in DOMAIN connections)
            => Uris(connections'[cid]) =
                 IF Accepted(m) /\ m.method = "resources/subscribe"
                 THEN Uris(connections[cid]) \cup {m.params.uri}
                 ELSE IF Accepted(m) /\ m.method = "resources/unsubscribe"
                 THEN Uris(connections[cid]) \ {m.params.uri}
                 ELSE Uris(connections[cid])]_vars

\* The last request was accepted and left the only connection without
\* subscriptions: it was an accepted unsubscribe
C32_Witness ==
    /\ steps = MaxSteps
    /\ reply.kind = "Response"
    /\ \E cid \in DOMAIN connections :
        /\ connections[cid].subscribed_resources = <<>>
        /\ \A other \in DOMAIN connections : other = cid

\* ------------------------------------- handshake of Client with Server
\* crate::protocol::LATEST_PROTOCOL_VERSION, and the name of
\* ClientOptions::default().implementation
LATEST_PROTOCOL_VERSION == "2025-03-26"
ClientImplementation == "mcpx-client"

\* The connection the server keeps for this client
Peer == "c1"

\* Client::initialize, lines 279-293: the initialize request. Its
\* "capabilities" object has the keys "sampling" and "roots" whatever the
\* options are; "listChanged" under "roots" is the option's value.
initialize_request ==
    [kind |-> "Request", method |-> "initialize", id |-> InitId,
     params |-> Params("valid", ClientImplementation, LATEST_PROTOCOL_VERSION,
                       {"sampling", "roots"}
                           \cup (IF client_options.roots_list_changed
                                 THEN {"roots.listChanged"} ELSE {}),
                       "")]

\* handle_initialize, lines 200-228: the "capabilities" object of the
\* initialize result, as the set of its paths. The five feature keys are
\* always inserted: "logging" and "completions" with the flag as their
\* value, the others with an object of their nested flags when the feature
\* is on and with the value false when it is off.
initialize_result_capabilities(opts) ==
    {"logging", "completions", "prompts", "resources", "tools"}
    \cup (IF {"prompts", "prompts_list_changed"} \subseteq opts
          THEN {"prompts.listChanged"} ELSE {})
    \cup (IF {"resources", "resources_list_changed"} \subseteq opts
          THEN {"resources.listChanged"} ELSE {})
    \cup (IF {"resources", "resources_subscribe"} \subseteq opts
          THEN {"resources.subscribe"} ELSE {})
    \cup (IF {"tools", "tools_list_changed"} \subseteq opts
          THEN {"tools.listChanged"} ELSE {})

\* The server is handed the initialize request the client has sent
ServerTakesInitialize ==
    /\ last_sent = Request("initialize", InitId)
    /\ reply = NoReply
    /\ ServerHandleMessage(Peer, initialize_request)

\* The reply of the server reaches the client's transport
ReplyArrives ==
    /\ reply.kind \in {"Response", "Error"}
    /\ PeerSend(IF reply.kind = "Response" THEN Response(reply.id)
                ELSE ErrorMsg(reply.id))

\* Client::initialize stores what it parsed from the server's result
StoreResult(c) ==
    /\ reply = RpcResponse(InitId, "initialize")
    /\ StoreCapabilities(c, initialize_result_capabilities(options))

\* One handshake of a client with a server, each with the options of its
\* builder
HandshakeNext ==
    \/ Start
    \/ AddConnection(Peer)
    \/ OpenSession
    \/ \E c \in Callers : Initialize(c)
    \/ \E c \in Callers : SendRequest(c)
    \/ ServerTakesInitialize
    \/ ReplyArrives
    \/ HandleMessage
    \/ \E c \in Callers : Deliver(c)
    \/ \E c \in Callers : AwaitResponse(c)
    \/ \E c \in Callers : StoreResult(c)
    \/ \E c \in Callers : SetInitialized(c)
    \/ \E c \in Callers : NotifyInitialized(c)
    \/ \E c \in Callers : EmitConnected(c)

HandshakeInit ==
    /\ ClientNew
    /\ ServerNew
    /\ LibraryIdle
    /\ default_timeout_ms = DefaultTimeoutMs
    /\ client_options \in ClientOptionChoices

HandshakeSpec == HandshakeInit /\ [][HandshakeNext]_vars

\* C33: after a completed handshake the client's cached flag of each of
\* logging, completions, prompts, resources and tools is true exactly when
\* the server was configured with that capability.
C33_CachedCapabilitiesMatchServer ==
    (connection_state = "Initialized" /\ server_capabilities.present)
    => \A f \in {"logging", "completions", "prompts", "resources", "tools"} :
        f \in server_capabilities.flags <=> f \in options

\* C34: after the server has handled the client's initialize request, the
\* connection's recorded roots and sampling are the client's configured
\* ClientCapabilities.roots and ClientCapabilities.sampling.
C34_RecordedCapabilitiesMatchClient ==
    (Peer \in DOMAIN connections /\ connections[Peer].initialized)
    => /\ "roots" \in connections[Peer].capabilities <=> client_options.roots
       /\ "sampling" \in connections[Peer].capabilities <=> client_options.sampling

\* ------------------------------------------------ connect and the state
\* Caller c's Client::connect returns Ok in this step
ConnectReturnsOk(c) ==
    /\ op[c] = "connect"
    /\ pc[c] # "idle"
    /\ pc'[c] = "idle"
    /\ result'[c] = "Ok"

\* The steps of hs as a set
Done(c) == {hs[c][k] : k \in 1..Len(hs[c])}

\* C35: when Client::connect returns Ok, the connection state is
\* Initialized and this call has received a response to its initialize
\* request.
C35_ConnectOkMeansInitialized ==
    [][\A c \in Callers :
        ConnectReturnsOk(c)
        => /\ connection_state' = "Initialized"
           /\ "response_received" \in Done(c)]_vars

\* C36: while no receive loop is alive and the transport is closed (the
\* loop has ended and no connect was called since), the connection state
\* is Disconnected, whatever a Client::initialize in progress does.
C36_DisconnectedAfterLoopEnds ==
    (loops = 0 /\ ~connected) => connection_state = "Disconnected"

\* ------------------------------------------- the lock on the capabilities
\* A client whose first session, opened by Opener with a peer that offers
\* UpdatingPeerJson, has ended: the receive loop has exited after the close
\* of the transport, and the capabilities of the peer are still cached.
\* The calls of the run are counted from here.
SessionEnded ==
    /\ connection_state = "Disconnected"
    /\ server_capabilities = SomeCaps(parse_server_capabilities(UpdatingPeerJson))
    /\ pending_requests = EmptyTable
    /\ connected = FALSE
    /\ inbox = <<>>
    /\ sent = 2
    /\ last_sent = Notification("notifications/initialized", InitId)
    /\ events = <<Event("Connected", 1)>>
    /\ loops = 0
    /\ pc = [c \in Callers |-> "idle"]
    /\ op = [c \in Callers |-> "none"]
    /\ rid = [c \in Callers |-> InitId]
    /\ result = [c \in Callers |-> IF c = Opener THEN "Ok" ELSE "none"]
    /\ chan = [c \in Callers |-> "none"]
    /\ hs = [c \in Callers |-> IF c = Opener THEN HandshakeOrder ELSE <<>>]
    /\ next_id = 1
    /\ srv_msgs = 1
    /\ consumed = <<>>
    /\ cause = [c \in Callers |-> IF c = Opener THEN 1 ELSE 0]

ReconnectInit ==
    /\ SessionEnded
    /\ calls = 0
    /\ default_timeout_ms \in {0, DefaultTimeoutMs}
    /\ client_options = DefaultClientOptions
    /\ ServerNew
    /\ options = {"logging"}
    /\ LibraryIdle

\* The second session of that client: its tasks call gated operations and
\* connect again
ReconnectNext ==
    \/ \E c \in Callers, o \in {"list_tools", "list_resources"} : CallGated(c, o)
    \/ \E c \in Callers : SendRequest(c)
    \/ \E c \in Callers : AwaitResponse(c)
    \/ \E c \in Callers : Timeout(c)
    \/ OpenSession
    \/ \E c \in Callers : Initialize(c)
    \/ \E c \in Callers : StoreCapabilities(c, UpdatingPeerJson)
    \/ \E c \in Callers : SetInitialized(c)
    \/ \E c \in Callers : NotifyInitialized(c)
    \/ \E c \in Callers : EmitConnected(c)
    \/ HandleMessage
    \/ \E c \in Callers : Deliver(c)
    \/ \E m \in ReplyFrames \cup EventNotifications : PeerNotify(m, MaxNotifications + 1)
    \/ TransportClose
    \/ ReceiveLoopExit
    \/ ConsumeEvent

ReconnectSpec == ReconnectInit /\ [][ReconnectNext]_vars

\* A gated operation that is in send_request
InFlight(c) == op[c] = "gated" /\ pc[c] \in {"sending", "waiting"}

\* C37: no request in flight holds the read lock on the cached
\* capabilities, so Client::initialize is never kept from its write by one,
\* and the receive loop is never kept from its capability read (behind the
\* queued writer) by one.
C37_InFlightRequestHoldsNoLock ==
    /\ \A c, d \in Callers : pc[c] = "store_caps" => ~InFlight(d)
    /\ (inbox # <<>> /\ Head(inbox).method \in ListChangedMethods /\ loops > 0)
       => ~(WriterWaiting /\ \E d \in Callers : InFlight(d))

\* --------------------------------------------- initialize on the server
\* The application drops the receiver Server::new gave it
DropEventReceiver ==
    /\ event_receiver
    /\ event_receiver' = FALSE
    /\ UNCHANGED <<operational_state, options, connections, reply, outcome,
                   emitted, service_calls, server_events, handling, steps,
                   client_vars, lib_vars>>

\* The initialize requests of a client, with and without usable params
InitializeRequests == {m \in ClientMessages : m.method = "initialize"}

\* A server whose clients send initialize, with an application that may
\* stop listening to the events
InitializeNext ==
    \/ Start
    \/ \E cid \in ClientIds : AddConnection(cid)
    \/ \E cid \in ClientIds, m \in InitializeRequests : ServerHandleMessage(cid, m)
    \/ DropEventReceiver

InitializeSpec == ServerInit /\ [][InitializeNext]_vars

\* C38: when the handling of an initialize request returns an error, the
\* connection (its initialized flag, client_info, protocol_version and
\* capabilities) is what it was before the request.
C38_FailedInitializeChangesNothing ==
    [][\A cid \in ClientIds, m \in InitializeRequests :
        (/\ ServerHandleMessage(cid, m)
         /\ cid \in DOMAIN connections
         /\ operational_state = "Running"
         /\ reply'.kind = "Err")
        => connections'[cid] = connections[cid]]_vars

\* ------------------------------------------------- requests and stop
\* Server::handle_message and handle_request, lines 76-93: the lookup of
\* the client, and the check of the operational state under the read lock
\* on the state, which is dropped before the handler of the method runs
BeginRequest(cid, m) ==
    /\ ~handling.busy
    /\ Len(server_events) < MaxServerEvents
    /\ m.kind = "Request"
    /\ IF cid \notin DOMAIN connections
       THEN /\ reply' = Failed("InternalError")
            /\ UNCHANGED handling
       ELSE IF operational_state # "Running"
       THEN /\ reply' = RpcError(m.id, InternalErrorCode)
            /\ UNCHANGED handling
       ELSE /\ handling' = Handling(cid, m)
            /\ UNCHANGED reply
    /\ UNCHANGED <<operational_state, options, connections, outcome, emitted,
                   service_calls, server_events, event_receiver, steps,
                   client_vars, lib_vars>>

\* handle_request, lines 94-121: the handler of the method runs, with the
\* state lock released
FinishRequest ==
    /\ handling.busy
    /\ dispatch(handling.cid, handling.msg)
    /\ handling' = NoHandling
    /\ UNCHANGED <<operational_state, options, outcome, emitted,
                   service_calls, event_receiver, steps, client_vars, lib_vars>>

\* The requests that change a connection
StatefulRequests ==
    {m \in ClientMessages :
        /\ m.method \in {"initialize", "resources/subscribe", "ping"}
        /\ m.params.shape \in {"valid", "missing"}
        /\ m.id = 1}

\* A server that is started and stopped while connections come and go and
\* requests are handled
LifecycleNext ==
    \/ Start
    \/ Stop
    \/ \E cid \in ClientIds : AddConnection(cid)
    \/ \E cid \in ClientIds : RemoveConnection(cid)
    \/ \E cid \in ClientIds, m \in StatefulRequests : BeginRequest(cid, m)
    \/ FinishRequest

LifecycleSpec == ServerInit /\ [][LifecycleNext]_vars

\* C40: a request whose handling starts while the server is not Running is
\* answered with the error -32603 and changes no connection; no connection
\* becomes initialized or changes its subscriptions in a step that ends
\* with the server not Running; and Server::stop leaves the connection
\* table empty and the state Stopped.
C40_NotRunningChangesNothing ==
    [][/\ \A cid \in ClientIds, m \in StatefulRequests :
            (/\ BeginRequest(cid, m)
             /\ cid \in DOMAIN connections
             /\ operational_state # "Running")
            => /\ reply' = RpcError(m.id, InternalErrorCode)
               /\ connections' = connections
               /\ ~handling'.busy
       /\ operational_state' # "Running"
            => \A cid \in DOMAIN connections \cap DOMAIN connections' :
                /\ connections'[cid].initialized = connections[cid].initialized
                /\ connections'[cid].subscribed_resources
                       = connections[cid].subscribed_resources
       /\ Stop => (connections' = [c \in {} |-> NewConnection]
                   /\ operational_state' = "Stopped")]_vars

====
